---------------------------- MODULE Spec2Model ----------------------------
(***************************************************************************)
(* Runtime lifecycle engine of databricks_maintenance (RuntimeManager):    *)
(* the deprecation-knowledge merge (fetch_deprecation_dates_from_docs),    *)
(* the cluster classifier (get_deprecated_runtime_clusters), the catalog   *)
(* resolver (get_available_runtime_versions, get_current_lts_runtimes) and *)
(* the upgrade recommender (recommend_runtime_upgrades).                   *)
(*                                                                         *)
(* Representation.  A version string "7.3" is the pair <<7, 3>>; a date    *)
(* string "YYYY-MM-DD" is the triple <<y, m, d>> (which need not be a      *)
(* calendar date: the ISO branch of the scraper stores the matched text    *)
(* unvalidated); a datetime is <<y, m, d, s>> with s the time of day.      *)
(* Scraped cells and text blocks are records that carry what the regular   *)
(* expressions of the scraper can see in them.                             *)
(***************************************************************************)
EXTENDS Integers, Sequences, FiniteSets, TLC

\* ------------------------------------------------------------------ bounds
\* Data rows scanned per fetched page, text blocks scanned per fetched page.
MaxRows == 1
MaxBlocks == 1
\* Clusters in the list the workspace returns, or the recommender is given.
MaxClusters == 2
\* The time to live of cache entries and the last reading of the clock, in
\* seconds.
cache_ttl == 1
MaxTime == 3

\* Data rows of the table of the page SpecTable scrapes.
MaxTableRows == 2

\* The largest retry_count a call of make_api_request is given.
MaxRetries == 3

\* Library statuses of a cluster, and workers of the pool that checks them.
MaxLibraries == 3
max_workers == 2

\* ---------------------------------------------------------------- calendar
NoDate == <<>>
NoVersion == <<>>
\* A cache entry that does not exist, and one that holds data.
NoEntry == [present |-> FALSE]

Entry(data) == [present |-> TRUE, data |-> data]

IsLeap(y) == (y % 4 = 0 /\ y % 100 # 0) \/ y % 400 = 0

DaysInMonth(y, m) ==
    IF m = 2 THEN (IF IsLeap(y) THEN 29 ELSE 28)
    ELSE IF m \in {4, 6, 9, 11} THEN 30 ELSE 31

\* What datetime.strptime accepts as year, month and day.
ValidDate(date) ==
    /\ date # NoDate
    /\ date[1] \in 1..9999
    /\ date[2] \in 1..12
    /\ date[3] \in 1..DaysInMonth(date[1], date[2])

\* Order of datetimes <<y, m, d, s>>.
DtLeq(a, b) ==
    \/ a[1] < b[1]
    \/ a[1] = b[1] /\ a[2] < b[2]
    \/ a[1] = b[1] /\ a[2] = b[2] /\ a[3] < b[3]
    \/ a[1] = b[1] /\ a[2] = b[2] /\ a[3] = b[3] /\ a[4] <= b[4]

\* datetime.strptime(s, "%Y-%m-%d"): midnight of that day.
Midnight(date) == <<date[1], date[2], date[3], 0>>

\* datetime.now().strftime('%Y-%m-%d')
Today(dt) == <<dt[1], dt[2], dt[3]>>

\* dt + relativedelta(months=n): the month moves, the day is clamped to the
\* length of the month reached.
AddMonths(dt, n) ==
    LET mm == (dt[2] - 1) + n
        y == dt[1] + (mm \div 12)
        m == (mm % 12) + 1
        d == IF dt[3] > DaysInMonth(y, m) THEN DaysInMonth(y, m) ELSE dt[3]
    IN <<y, m, d, dt[4]>>

\* ------------------------------------------------------ the hardcoded table
known_eol_dates ==
    (<<9, 1>> :> [version |-> <<9, 1>>, deprecation_date |-> <<2024, 12, 19>>,
                  source |-> "hardcoded",
                  note |-> "DBR 9.1 LTS end of support date: December 19, 2024"])
    @@ (<<10, 4>> :> [version |-> <<10, 4>>, deprecation_date |-> <<2025, 6, 30>>,
                  source |-> "hardcoded",
                  note |-> "DBR 10.4 LTS end of support date: June 30, 2025"])
    @@ (<<7, 3>> :> [version |-> <<7, 3>>, deprecation_date |-> <<2022, 12, 31>>,
                  source |-> "hardcoded",
                  note |-> "DBR 7.3 LTS end of support date: December 31, 2022"])
    @@ (<<8, 4>> :> [version |-> <<8, 4>>, deprecation_date |-> <<2023, 9, 30>>,
                  source |-> "hardcoded",
                  note |-> "DBR 8.4 LTS end of support date: September 30, 2023"])
    @@ (<<11, 3>> :> [version |-> <<11, 3>>, deprecation_date |-> <<2025, 12, 31>>,
                  source |-> "hardcoded",
                  note |-> "DBR 11.3 LTS end of support date: December 31, 2025"])

urls ==
    << "https://docs.databricks.com/en/release-notes/runtime/releases.html",
       "https://learn.microsoft.com/en-us/azure/databricks/release-notes/runtime",
       "https://docs.databricks.com/gcp/en/release-notes/runtime" >>

\* ------------------------------------------------------------ date parsing
\* A piece of text as the date expressions see it: fmt is the alternative of
\* the date expression that matches first ("none": no alternative matches),
\* y, m, d the numbers it holds; m = 0 stands for a word that is no full
\* month name ("Sept 30, 2023"), which %B refuses.
ParseFail == [ok |-> FALSE, date |-> NoDate]

Parsed(date) == [ok |-> TRUE, date |-> date]

\* The if/elif chain of the table branch; ok = FALSE is the ValueError of
\* strptime.  The ISO alternative keeps the matched text as it is.
ParseDate(t) ==
    CASE t.fmt = "MonthDY" ->
            IF ValidDate(<<t.y, t.m, t.d>>) THEN Parsed(<<t.y, t.m, t.d>>) ELSE ParseFail
      [] t.fmt = "ISO" -> Parsed(<<t.y, t.m, t.d>>)
      [] t.fmt = "MDY" ->
            IF ValidDate(<<t.y, t.m, t.d>>) THEN Parsed(<<t.y, t.m, t.d>>) ELSE ParseFail
      [] t.fmt = "MonthY" ->
            IF ValidDate(<<t.y, t.m, 1>>) THEN Parsed(<<t.y, t.m, 1>>) ELSE ParseFail
      [] OTHER -> ParseFail

\* -------------------------------------------------------------- the merge
Put(dates, version, rec) == (version :> rec) @@ dates

\* TableRow without its branch for a cell that only says "deprecated".
TableRowSkipsDeprecated(dates, url, row, today) ==
    IF row.version = NoVersion THEN dates
    ELSE IF row.eol.fmt # "none" /\ ParseDate(row.eol).ok
            /\ row.version \notin DOMAIN dates
    THEN Put(dates, row.version,
             [version |-> row.version,
              deprecation_date |-> ParseDate(row.eol).date,
              source |-> url,
              note |-> "Found in table: " \o row.eol.text])
    ELSE dates

\* TableRow whose write of a parsed date is not guarded.
TableRowOverwrites(dates, url, row, today) ==
    IF row.version = NoVersion THEN dates
    ELSE IF row.eol.fmt # "none" /\ ParseDate(row.eol).ok
    THEN Put(dates, row.version,
             [version |-> row.version,
              deprecation_date |-> ParseDate(row.eol).date,
              source |-> url,
              note |-> "Found in table: " \o row.eol.text])
    ELSE TableRowSkipsDeprecated(dates, url, row, today)

\* One data row of a table whose header has a version column and an
\* end-of-life column: row.version is the first major.minor of the version
\* cell (NoVersion: none), row.eol the end-of-life cell.
TableRow(dates, url, row, today) ==
    IF row.version = NoVersion THEN dates
    ELSE IF row.eol.fmt # "none" THEN
        IF ParseDate(row.eol).ok /\ row.version \notin DOMAIN dates
        THEN Put(dates, row.version,
                 [version |-> row.version,
                  deprecation_date |-> ParseDate(row.eol).date,
                  source |-> url,
                  note |-> "Found in table: " \o row.eol.text])
        ELSE dates
    ELSE IF row.eol.deprecated THEN
        Put(dates, row.version,
            [version |-> row.version,
             deprecation_date |-> today,
             source |-> url,
             note |-> "Marked as deprecated without specific date"])
    ELSE dates


\* The words the keyword test of the text scan looks for: every term of the
\* list, split at blanks (term.split()).
terms == {"deprecate", "eol", "end of life", "end of support", "no longer supported"}

Split(term) ==
    CASE term = "end of life" -> {"end", "of", "life"}
      [] term = "end of support" -> {"end", "of", "support"}
      [] term = "no longer supported" -> {"no", "longer", "supported"}
      [] OTHER -> {term}

\* word in text.lower(): block.has holds the strings that occur in the
\* lowercased text of the block.
MentionsDeprecation(block) ==
    \E term \in terms : \E word \in Split(term) : word \in block.has

\* The if/elif chain of the text branch (the comma of "Month D, YYYY" is
\* optional and removed before strptime).
ParseTextDate(t) ==
    CASE t.fmt = "MonthDY" ->
            IF ValidDate(<<t.y, t.m, t.d>>) THEN Parsed(<<t.y, t.m, t.d>>) ELSE ParseFail
      [] t.fmt = "ISO" -> Parsed(<<t.y, t.m, t.d>>)
      [] t.fmt = "MDY" ->
            IF ValidDate(<<t.y, t.m, t.d>>) THEN Parsed(<<t.y, t.m, t.d>>) ELSE ParseFail
      [] t.fmt = "MonthY" ->
            IF ValidDate(<<t.y, t.m, 1>>) THEN Parsed(<<t.y, t.m, 1>>) ELSE ParseFail
      [] OTHER -> ParseFail

\* One p, li, div or span of the page: block.version is the first
\* major.minor of its text (NoVersion: none), block.date the first date-like
\* piece of its text (fmt "none": none).
TextBlock(dates, url, block) ==
    IF /\ MentionsDeprecation(block)
       /\ block.version # NoVersion
       /\ block.date.fmt # "none"
       /\ ParseTextDate(block.date).ok
       /\ block.version \notin DOMAIN dates
    THEN Put(dates, block.version,
             [version |-> block.version,
              deprecation_date |-> ParseTextDate(block.date).date,
              source |-> url,
              note |-> block.text])
    ELSE dates

\* The range the inference pass walks: range(1, 13) and range(0, 15).
InferMajors == 1..12
InferMinors == 0..14

\* BelowCutoff with the cutoff one major version too high.
BelowCutoffLoose(version) == version[1] <= 9

BelowCutoff(version) == version[1] < 9 \/ (version[1] = 9 /\ version[2] < 1)

Inferred(dates, available_version_numbers) ==
    { v \in InferMajors \X InferMinors :
        /\ v \notin DOMAIN dates
        /\ v \notin available_version_numbers
        /\ BelowCutoff(v) }

InferencePass(dates, available_version_numbers, today) ==
    [ v \in Inferred(dates, available_version_numbers) |->
        [version |-> v,
         deprecation_date |-> today,
         source |-> "inference",
         note |-> "Inferred deprecation (version not available for creation)"] ]
    @@ dates

\* ------------------------------------------------------ the catalog resolver
\* The characters of "major.minor", as code points.
Digits(n) == IF n < 10 THEN << 48 + n >> ELSE << 48 + (n \div 10), 48 + (n % 10) >>

Chars(version) == Digits(version[1]) \o << 46 >> \o Digits(version[2])

RECURSIVE TextLess(_, _)
TextLess(a, b) ==
    IF b = << >> THEN FALSE
    ELSE IF a = << >> THEN TRUE
    ELSE IF Head(a) # Head(b) THEN Head(a) < Head(b)
    ELSE TextLess(Tail(a), Tail(b))

\* VersionLess for a sort on the version strings themselves.
VersionLessText(a, b) == TextLess(Chars(a), Chars(b))

\* sort key [int(part) for part in version.split(".")]: list comparison.
VersionLess(a, b) == a[1] < b[1] \/ (a[1] = b[1] /\ a[2] < b[2])

\* list.sort is stable: an entry goes after the entries that are not greater.
RECURSIVE InsertSorted(_, _)
InsertSorted(sorted, e) ==
    IF sorted = <<>> THEN <<e>>
    ELSE IF VersionLess(e.version, sorted[Len(sorted)].version)
         THEN Append(InsertSorted(SubSeq(sorted, 1, Len(sorted) - 1), e),
                     sorted[Len(sorted)])
         ELSE Append(sorted, e)

RECURSIVE SortVersions(_)
SortVersions(entries) ==
    IF entries = <<>> THEN <<>>
    ELSE InsertSorted(SortVersions(SubSeq(entries, 1, Len(entries) - 1)),
                      entries[Len(entries)])

\* ResolveEntries that keeps the offerings without a version too.
RECURSIVE ResolveEntriesKeepAll(_)
ResolveEntriesKeepAll(offerings) ==
    IF offerings = <<>> THEN <<>>
    ELSE LET o == offerings[Len(offerings)]
         IN Append(ResolveEntriesKeepAll(SubSeq(offerings, 1, Len(offerings) - 1)),
                   [key |-> o.key, name |-> o.name,
                    version |-> IF o.name.version # NoVersion
                                THEN o.name.version ELSE <<0, 0>>,
                    is_lts |-> "LTS" \in o.name.has])

\* An offering of the platform is [key, name]; a name is the record of what
\* the expressions see in it: its text, the first major.minor in it
\* (NoVersion: none) and the flavor markers it contains.
RECURSIVE ResolveEntries(_)
ResolveEntries(offerings) ==
    IF offerings = <<>> THEN <<>>
    ELSE LET o == offerings[Len(offerings)]
             rest == ResolveEntries(SubSeq(offerings, 1, Len(offerings) - 1))
         IN IF o.name.version # NoVersion
            THEN Append(rest, [key |-> o.key, name |-> o.name,
                               version |-> o.name.version,
                               is_lts |-> "LTS" \in o.name.has])
            ELSE rest

get_available_runtime_versions(response) == SortVersions(ResolveEntries(response))

VersionNumbers(available) == { available[i].version : i \in 1..Len(available) }

\* ------------------------------------------------------------ the classifier
\* fetch_deprecation_dates_from_docs as one computation.  A page is
\* [ok, rows, blocks]: whether its fetch and parse succeeded, the data rows
\* of its deprecation tables and its text blocks, in document order.
RECURSIVE ScanRows(_, _, _, _)
ScanRows(dates, url, rows, today) ==
    IF rows = <<>> THEN dates
    ELSE ScanRows(TableRow(dates, url, Head(rows), today), url, Tail(rows), today)

RECURSIVE ScanBlocks(_, _, _)
ScanBlocks(dates, url, blocks) ==
    IF blocks = <<>> THEN dates
    ELSE ScanBlocks(TextBlock(dates, url, Head(blocks)), url, Tail(blocks))

RECURSIVE ScrapeUrls(_, _, _, _)
ScrapeUrls(dates, pages, i, today) ==
    IF i > Len(urls) THEN dates
    ELSE IF ~pages[i].ok THEN ScrapeUrls(dates, pages, i + 1, today)
    ELSE ScrapeUrls(ScanBlocks(ScanRows(dates, urls[i], pages[i].rows, today),
                               urls[i], pages[i].blocks),
                    pages, i + 1, today)

FetchDeprecationDates(pages, response, today) ==
    InferencePass(ScrapeUrls(known_eol_dates, pages, 1, today),
                  VersionNumbers(get_available_runtime_versions(response)),
                  today)

DtLess(a, b) == DtLeq(a, b) /\ a # b

\* date.toordinal(): days since 0001-01-01, that day being 1.
RECURSIVE DaysBeforeMonth(_, _)
DaysBeforeMonth(y, m) ==
    IF m = 1 THEN 0 ELSE DaysBeforeMonth(y, m - 1) + DaysInMonth(y, m - 1)

Ordinal(date) ==
    LET y == date[1] - 1
    IN 365 * y + (y \div 4) - (y \div 100) + (y \div 400)
       + DaysBeforeMonth(date[1], date[2]) + date[3]

\* (deprecation_date - datetime.now()).days: the timedelta is normalised
\* with a non-negative seconds part, so days is the floor.
DaysUntil(date, now_) ==
    Ordinal(date) - Ordinal(Today(now_)) - (IF now_[4] > 0 THEN 1 ELSE 0)

\* deprecated_date_threshold = None
NoThreshold == << >>

\* "deprecation_date": "Unknown"
Unknown == << "Unknown" >>

\* ClassifyDate with a strict first comparison.
ClassifyDateStrict(deprecation_date, now_, threshold) ==
    IF DtLess(Midnight(deprecation_date), now_) THEN "DEPRECATED"
    ELSE IF DtLeq(Midnight(deprecation_date), threshold) THEN "SOON_DEPRECATED"
    ELSE "SUPPORTED"

\* The status of a version whose date parsed.
ClassifyDate(deprecation_date, now_, threshold) ==
    IF DtLeq(Midnight(deprecation_date), now_) THEN "DEPRECATED"
    ELSE IF DtLeq(Midnight(deprecation_date), threshold) THEN "SOON_DEPRECATED"
    ELSE "SUPPORTED"

\* Reported with every status let through.
ReportedAll(status) == TRUE

\* status in ["DEPRECATED", "SOON_DEPRECATED"]
Reported(status) == status \in {"DEPRECATED", "SOON_DEPRECATED"}

\* StrptimeFails for a strptime that takes any text.
StrptimeNeverFails(deprecation_date_str) == FALSE

\* datetime.strptime(deprecation_date_str, "%Y-%m-%d") raises ValueError.
StrptimeFails(deprecation_date_str) == ~ValidDate(deprecation_date_str)

\* The branch for a version that has a record.
RecordEntries(cluster, deprecation_info, now_, threshold) ==
    LET deprecation_date_str == deprecation_info.deprecation_date
        status == ClassifyDate(deprecation_date_str, now_, threshold)
    IN IF deprecation_date_str = NoDate THEN <<>>            \* falsy date
       ELSE IF StrptimeFails(deprecation_date_str) THEN <<>> \* ValueError, logged
       ELSE IF Reported(status)
       THEN << [cluster_id |-> cluster.cluster_id,
                cluster_name |-> cluster.cluster_name,
                current_runtime |-> cluster.spark_version,
                status |-> status,
                deprecation_date |-> deprecation_date_str,
                note |-> IF status = "DEPRECATED" THEN deprecation_info.note
                         ELSE IF status = "SOON_DEPRECATED"
                         THEN << "This runtime will be deprecated in ",
                                 DaysUntil(deprecation_date_str, now_), " days." >>
                         ELSE << >>,
                source |-> deprecation_info.source] >>
       ELSE <<>>

\* AvailabilityCheck that reports nothing.
AvailabilityCheckLenient(cluster, available_runtime_versions) == <<>>

\* The branch for a version that has no record.
AvailabilityCheck(cluster, available_runtime_versions) ==
    IF cluster.spark_version.version \notin available_runtime_versions
    THEN << [cluster_id |-> cluster.cluster_id,
             cluster_name |-> cluster.cluster_name,
             current_runtime |-> cluster.spark_version,
             status |-> "DEPRECATED",
             deprecation_date |-> Unknown,
             note |-> "This runtime is no longer available for new cluster creation",
             source |-> "availability_check"] >>
    ELSE <<>>

\* One turn of the loop over the clusters: what it appends.
ClusterEntries(cluster, runtime_deprecation_info, available_runtime_versions, now_, threshold) ==
    LET version == cluster.spark_version.version
    IN IF version = NoVersion THEN <<>>
       ELSE IF version \in DOMAIN runtime_deprecation_info
       THEN RecordEntries(cluster, runtime_deprecation_info[version], now_, threshold)
       ELSE AvailabilityCheck(cluster, available_runtime_versions)

RECURSIVE AtRisk(_, _, _, _, _)
AtRisk(cluster_list, runtime_deprecation_info, available_runtime_versions, now_, threshold) ==
    IF cluster_list = <<>> THEN <<>>
    ELSE ClusterEntries(Head(cluster_list), runtime_deprecation_info,
                        available_runtime_versions, now_, threshold)
         \o AtRisk(Tail(cluster_list), runtime_deprecation_info,
                   available_runtime_versions, now_, threshold)

\* threshold_arg is the argument; NoThreshold stands for None.
get_deprecated_runtime_clusters(threshold_arg, runtime_deprecation_info, available_runtimes, cluster_list, now_) ==
    AtRisk(cluster_list, runtime_deprecation_info,
           VersionNumbers(available_runtimes), now_,
           IF threshold_arg = NoThreshold THEN AddMonths(now_, 3)
           ELSE threshold_arg)

\* ----------------------------------------------------------- the recommender
\* Python's None where a runtime is expected.
None == [none |-> TRUE]

\* InsertSortedReverse that sorts ascending.
InsertSortedAscending(sorted, e) == InsertSorted(sorted, e)

\* lts_runtimes.sort(..., reverse=True) is stable too: an entry goes after
\* the entries that are not smaller.
RECURSIVE InsertSortedReverse(_, _)
InsertSortedReverse(sorted, e) ==
    IF sorted = <<>> THEN <<e>>
    ELSE IF VersionLess(sorted[Len(sorted)].version, e.version)
         THEN Append(InsertSortedReverse(SubSeq(sorted, 1, Len(sorted) - 1), e),
                     sorted[Len(sorted)])
         ELSE Append(sorted, e)

RECURSIVE SortVersionsReverse(_)
SortVersionsReverse(entries) ==
    IF entries = <<>> THEN <<>>
    ELSE InsertSortedReverse(SortVersionsReverse(SubSeq(entries, 1, Len(entries) - 1)),
                             entries[Len(entries)])

\* [rt for rt in runtimes if marker in rt.get("name", "")]
RECURSIVE WithMarker(_, _)
WithMarker(runtimes, marker) ==
    IF runtimes = <<>> THEN <<>>
    ELSE IF marker \in Head(runtimes).name.has
         THEN <<Head(runtimes)>> \o WithMarker(Tail(runtimes), marker)
         ELSE WithMarker(Tail(runtimes), marker)

get_current_lts_runtimes(all_runtimes) ==
    SortVersionsReverse(WithMarker(all_runtimes, "LTS"))

\* runtimes[-1] if runtimes else otherwise
LastOr(runtimes, otherwise) ==
    IF runtimes # <<>> THEN runtimes[Len(runtimes)] ELSE otherwise

\* latest_lts taking the other end of the list.
latest_lts_oldest(all_runtimes) ==
    LastOr(get_current_lts_runtimes(all_runtimes), None)

latest_lts(all_runtimes) ==
    LET lts_runtimes == get_current_lts_runtimes(all_runtimes)
    IN IF lts_runtimes # <<>> THEN lts_runtimes[1] ELSE None

latest_regular(all_runtimes) == LastOr(all_runtimes, None)

latest_ml(all_runtimes) == LastOr(WithMarker(all_runtimes, "ML"), None)

\* latest_ml_lts with None where no runtime is both ML and LTS.
latest_ml_lts_strict(all_runtimes) ==
    LastOr(WithMarker(WithMarker(all_runtimes, "ML"), "LTS"), None)

latest_ml_lts(all_runtimes) ==
    LastOr(WithMarker(WithMarker(all_runtimes, "ML"), "LTS"),
           latest_ml(all_runtimes))

latest_genomics(all_runtimes) == LastOr(WithMarker(all_runtimes, "Genomics"), None)

latest_photon(all_runtimes) == LastOr(WithMarker(all_runtimes, "Photon"), None)

\* is_production that takes every cluster for a production cluster.
is_production_always(cluster) == TRUE

production_terms == {"prod", "production", "prd", "live"}

\* cluster_name.has holds the production terms that occur in the lowercased
\* name.
is_production(cluster) == \E term \in production_terms : term \in cluster.cluster_name.has

\* recommendation["runtime_key"] = runtime["key"]: subscripting None raises
\* TypeError.
Raised == [raised |-> "TypeError"]

\* Recommendation that tolerates a missing runtime and leaves the key and
\* the name empty.
RecommendationOfNothing(runtime, rationale) ==
    IF runtime = None
    THEN [runtime_key |-> "", runtime_name |-> [text |-> "", version |-> NoVersion, has |-> {}],
          rationale |-> rationale]
    ELSE [runtime_key |-> runtime.key, runtime_name |-> runtime.name,
          rationale |-> rationale]

Recommendation(runtime, rationale) ==
    IF runtime = None THEN Raised
    ELSE [runtime_key |-> runtime.key, runtime_name |-> runtime.name,
          rationale |-> rationale]

\* The recommendation of one cluster; current_runtime.has holds the flavor
\* markers that occur in the lowercased runtime string.
Recommend(cluster, all_runtimes) ==
    LET is_ml == "ml" \in cluster.current_runtime.has
        is_genomics == "genomics" \in cluster.current_runtime.has
        is_photon == "photon" \in cluster.current_runtime.has
    IN IF is_production(cluster) THEN
          IF is_ml /\ latest_ml_lts(all_runtimes) # None
          THEN Recommendation(latest_ml_lts(all_runtimes),
                   "Latest ML LTS runtime recommended for production ML workloads")
          ELSE IF is_genomics /\ latest_genomics(all_runtimes) # None
          THEN Recommendation(latest_genomics(all_runtimes),
                   "Latest Genomics runtime recommended for production genomics workloads")
          ELSE IF is_photon /\ latest_photon(all_runtimes) # None
          THEN Recommendation(latest_photon(all_runtimes),
                   "Latest Photon runtime recommended for production SQL workloads")
          ELSE IF latest_lts(all_runtimes) # None
          THEN Recommendation(latest_lts(all_runtimes),
                   "Latest LTS runtime recommended for stable production workloads")
          ELSE Recommendation(latest_regular(all_runtimes),
                   "Latest runtime recommended (no LTS version available)")
       ELSE
          IF is_ml /\ latest_ml(all_runtimes) # None
          THEN Recommendation(latest_ml(all_runtimes),
                   "Latest ML runtime recommended for ML development workloads")
          ELSE IF is_genomics /\ latest_genomics(all_runtimes) # None
          THEN Recommendation(latest_genomics(all_runtimes),
                   "Latest Genomics runtime recommended for genomics development")
          ELSE IF is_photon /\ latest_photon(all_runtimes) # None
          THEN Recommendation(latest_photon(all_runtimes),
                   "Latest Photon runtime recommended for SQL development")
          ELSE Recommendation(latest_regular(all_runtimes),
                   "Latest runtime recommended for development workloads")

\* RecommendAll with the recommendation computed once, for the first cluster
\* of the list, and given to every cluster.
RecommendAllSticky(recs, cluster_list, all_runtimes) ==
    IF cluster_list = <<>> THEN [ok |-> TRUE, value |-> recs]
    ELSE IF Recommend(Head(cluster_list), all_runtimes) = Raised
    THEN [ok |-> FALSE, value |-> << >>]
    ELSE [ok |-> TRUE,
          value |-> [ id \in { cluster_list[i].cluster_id : i \in 1..Len(cluster_list) }
                        |-> Recommend(Head(cluster_list), all_runtimes) ] @@ recs]

\* The loop over the clusters: recommendations[cluster_id] = recommendation,
\* a later cluster with the same id replacing the earlier one; the first
\* TypeError ends the call.
RECURSIVE RecommendAll(_, _, _)
RecommendAll(recs, cluster_list, all_runtimes) ==
    IF cluster_list = <<>> THEN [ok |-> TRUE, value |-> recs]
    ELSE LET cluster == Head(cluster_list)
             recommendation == Recommend(cluster, all_runtimes)
         IN IF recommendation = Raised THEN [ok |-> FALSE, value |-> << >>]
            ELSE RecommendAll((cluster.cluster_id :> recommendation) @@ recs,
                              Tail(cluster_list), all_runtimes)

recommend_runtime_upgrades(cluster_list, all_runtimes) ==
    RecommendAll(<< >>, cluster_list, all_runtimes)

\* ------------------------------------------------------------------ the cache
\* CacheManager keeps one file per key; an entry is the payload of the file
\* and its modification time.  time.time() is the clock, in seconds.
CacheKeys == { "clusters_list", "spark_versions", "runtime_versions" }

Stored(data, at) == [present |-> TRUE, data |-> data, written_at |-> at]

\* What get returns: None, or the payload.
Absent == [hit |-> FALSE]

Hit(data) == [hit |-> TRUE, data |-> data]

\* CacheFresh with an entry aged exactly the TTL taken for expired.
CacheFreshStrict(entry, t) == t - entry.written_at < cache_ttl

\* not (file_age > self.cache_ttl)
CacheFresh(entry, t) == ~(t - entry.written_at > cache_ttl)

\* CacheManager.get
CacheGet(files, key, t) ==
    IF ~files[key].present THEN Absent
    ELSE IF ~CacheFresh(files[key], t) THEN Absent
    ELSE Hit(files[key].data)

\* CacheManager.set
CacheWrite(files, key, data, t) == [files EXCEPT ![key] = Stored(data, t)]

\* An answer of the platform is [empty, items]: empty says that the JSON
\* body is {}, items is the list under "clusters" or "versions".
Response(empty, items) == [empty |-> empty, items |-> items]

\* "if cached_data:" on what get returned: None, an empty list and an empty
\* dict are false.
Truthy(key, cached) ==
    /\ cached.hit
    /\ IF key = "spark_versions" THEN ~cached.data.empty
       ELSE cached.data # << >>

\* A cache-backed call gives [result, files, fetched]: what it returns, the
\* cache after it, and the fetches it made.
Outcome(result, files, fetched) ==
    [result |-> result, files |-> files, fetched |-> fetched]

\* DatabricksApiClient.get_cluster_list
get_cluster_list(files, t, response) ==
    IF Truthy("clusters_list", CacheGet(files, "clusters_list", t))
    THEN Outcome(CacheGet(files, "clusters_list", t).data, files, {})
    ELSE Outcome(response.items,
                 CacheWrite(files, "clusters_list", response.items, t),
                 {"2.0/clusters/list"})

\* DatabricksApiClient.get_spark_versions
get_spark_versions(files, t, response) ==
    IF Truthy("spark_versions", CacheGet(files, "spark_versions", t))
    THEN Outcome(CacheGet(files, "spark_versions", t).data, files, {})
    ELSE Outcome(response, CacheWrite(files, "spark_versions", response, t),
                 {"2.0/clusters/spark-versions"})

\* RuntimeManager.get_available_runtime_versions with its cache: on a miss
\* it calls get_spark_versions, resolves and stores the catalog.
CachedRuntimeVersions(files, t, response) ==
    IF Truthy("runtime_versions", CacheGet(files, "runtime_versions", t))
    THEN Outcome(CacheGet(files, "runtime_versions", t).data, files, {})
    ELSE LET got == get_spark_versions(files, t, response)
             versions == get_available_runtime_versions(got.result.items)
         IN Outcome(versions,
                    CacheWrite(got.files, "runtime_versions", versions, t),
                    {"get_spark_versions"} \cup got.fetched)

\* ------------------------------------------------------- the cache files
\* The keys the cache manager is exercised with on its own.
StoreKeys == { "clusters_list", "pypi_numpy" }

NoFile == [exists |-> FALSE]

\* A Python value handed to set: a list, a tuple, a dict (keys: "str" or
\* "int") or a set, with its items.
PyValue(type, keys, items) == [type |-> type, keys |-> keys, items |-> items]

\* The text of a cache file: a JSON array or object, or what a write that
\* did not finish left after open(cache_file, 'w') emptied the file.
JsonText(kind, items) == [json |-> kind, items |-> items]

BrokenText == [json |-> "broken"]

Unserializable == [json |-> "TypeError"]

\* json.dump: a list and a tuple both become an array, the keys of a dict
\* become strings, a set raises TypeError.
JsonDumps(value) ==
    CASE value.type \in {"list", "tuple"} -> JsonText("array", value.items)
      [] value.type = "dict" -> JsonText("object", value.items)
      [] OTHER -> Unserializable

\* json.load of a complete text: an array is a list, an object is a dict
\* with string keys.
JsonLoads(text) ==
    IF text.json = "array" THEN PyValue("list", "none", text.items)
    ELSE PyValue("dict", "str", text.items)

File(text, at) == [exists |-> TRUE, text |-> text, written_at |-> at]

\* CacheManager.get with a storage that may fail: fault = "read" is an
\* error of open or of the read.
StoreGet(files, key, t, fault) ==
    IF ~files[key].exists THEN Absent
    ELSE IF ~CacheFresh(files[key], t) THEN Absent
    ELSE IF fault = "read" \/ files[key].text = BrokenText THEN Absent
    ELSE Hit(JsonLoads(files[key].text))

\* set does nothing but log when the write of the payload fails.
SetFails(data, fault) == fault # "none" \/ JsonDumps(data) = Unserializable

\* StoreSet that leaves an entry alone while it is fresh.
StoreSetKeepsFresh(files, key, data, t, fault) ==
    IF SetFails(data, fault) \/ StoreGet(files, key, t, "none").hit THEN files
    ELSE [files EXCEPT ![key] = File(JsonDumps(data), t)]

\* CacheManager.set with a storage that may fail: fault = "open" is an
\* error of open(cache_file, 'w'), before the file is touched; fault =
\* "write" is an error of json.dump or of the close, after open emptied the
\* file.
StoreSet(files, key, data, t, fault) ==
    IF fault = "open" THEN files
    ELSE IF fault = "write" \/ JsonDumps(data) = Unserializable
    THEN [files EXCEPT ![key] = File(BrokenText, t)]
    ELSE [files EXCEPT ![key] = File(JsonDumps(data), t)]

\* Payloads: [1, 2], (1, 2), {"a": 1}, {1: 1} and {1}.
Payloads ==
    { PyValue("list", "none", <<1, 2>>), PyValue("tuple", "none", <<1, 2>>),
      PyValue("dict", "str", <<1>>), PyValue("dict", "int", <<1>>),
      PyValue("set", "none", <<1>>) }

\* The callers that may be inside set at the same time.
Writers == { "w1", "w2" }

NotWriting == [at |-> "idle"]

\* The characters of a cache file as two writers race on it: the texts of
\* the payloads 12, 3456 and [7].
RaceTexts == { << "1", "2" >>, << "3", "4", "5", "6" >>, << "[", "7", "]" >> }

DigitChars == { "1", "2", "3", "4", "5", "6", "7" }

\* json.load of the characters of a file: a number, a list of one number,
\* or a JSONDecodeError, which get turns into None.
RaceParse(chars) ==
    IF chars # << >> /\ \A i \in 1..Len(chars) : chars[i] \in DigitChars
    THEN Hit([number |-> chars])
    ELSE IF Len(chars) = 3 /\ chars[1] = "[" /\ chars[2] \in DigitChars /\ chars[3] = "]"
    THEN Hit([list |-> << chars[2] >>])
    ELSE Absent

\* CacheManager.get on the file as it is now.
RaceGet(files, key, t) ==
    IF ~files[key].exists THEN Absent
    ELSE IF ~CacheFresh(files[key], t) THEN Absent
    ELSE RaceParse(files[key].text)

\* write() through a file object of its own, opened with 'w': the text
\* goes to the start of the file and what the file holds beyond it stays.
WriteAtStart(chars, text) ==
    IF Len(chars) > Len(text) THEN text \o SubSeq(chars, Len(text) + 1, Len(chars))
    ELSE text

NoRequest == [state |-> "none"]

NoPool == [state |-> "none"]

\* ------------------------------------------------------ the library checks
\* Versions are numbered so that a larger number is a newer version; a
\* version is [known, comparable, n]: "unknown" when the status has none,
\* not comparable when version.parse raises on it.
Version(n) == [known |-> TRUE, comparable |-> TRUE, n |-> n]

\* A library status of a cluster: whether it is a PyPI library, its
\* package, its version, and what PyPI does when asked for the package:
\* [status, latest] with status "ok" (200), "non200" or "unreachable".
Library(pypi, package, version, status, latest) ==
    [pypi |-> pypi, package |-> package, version |-> version,
     answer |-> [status |-> status, latest |-> latest]]

\* security_critical_libs, for the packages of the model, as version
\* numbers.
security_critical_libs == ("numpy" :> 2) @@ ("pandas" :> 2)

\* check_pypi_package_updates on a cache miss.
check_pypi_package_updates(lib) ==
    IF lib.answer.status # "ok" THEN None
    ELSE IF ~lib.version.comparable THEN None
    ELSE IF lib.answer.latest > lib.version.n
    THEN [current_version |-> lib.version, latest_version |-> lib.answer.latest,
          update_available |-> TRUE]
    ELSE None

\* process_library
process_library(lib) ==
    IF ~lib.pypi THEN None
    ELSE IF ~lib.version.known THEN None
    ELSE IF /\ lib.package \in DOMAIN security_critical_libs
            /\ lib.version.comparable
            /\ lib.version.n < security_critical_libs[lib.package]
    THEN [library_name |-> lib.package, current_version |-> lib.version,
          recommended_version |-> "latest", severity |-> "high"]
    ELSE IF check_pypi_package_updates(lib) # None
    THEN [library_name |-> lib.package, current_version |-> lib.version,
          recommended_version |-> "newer",
          severity |-> IF lib.package \in DOMAIN security_critical_libs
                       THEN "medium" ELSE "low"]
    ELSE None

\* Collected that takes the results as the workers deliver them.
CollectedAsCompleted(results, order) == [ k \in 1..Len(order) |-> results[order[k]] ]

\* list(executor.map(process_library, installed_libraries)): the results
\* by position of the input, whatever the order the workers finished in.
Collected(results, order) == [ i \in 1..Len(order) |-> results[i] ]

\* The filter of the None results and the stable sort by severity.
Outdated(results) ==
    LET High(r) == r # None /\ r.severity = "high"
        Medium(r) == r # None /\ r.severity = "medium"
        Low(r) == r # None /\ r.severity = "low"
    IN SelectSeq(results, High) \o SelectSeq(results, Medium) \o SelectSeq(results, Low)

\* ----------------------------------------------------- the request wrapper
\* What one attempt of make_api_request meets: an exception of requests
\* (kind "exception"), or a response with its status and its body: empty,
\* JSON, or a text response.json() raises on.
Responses ==
    { [kind |-> "exception", status |-> 0, body |-> "none"] }
    \cup [kind : {"response"}, status : {200, 404}, body : {"empty", "json", "malformed"}]

\* Backoff without the exponent.
BackoffConstant(retry_delay, attempt) == retry_delay

\* sleep_time = retry_delay * (2 ** attempt)
Backoff(retry_delay, attempt) == retry_delay * (2 ^ attempt)

\* The attempt ends in the except clause or in the branch for a status of
\* 400 or more.
AttemptFails(response) ==
    \/ response.kind = "exception"
    \/ response.status >= 400
    \/ response.body = "malformed"

\* What the last attempt raises.
ErrorOf(response) ==
    IF response.kind = "exception" THEN "RequestException"
    ELSE IF response.status >= 400 THEN "HTTPError"
    ELSE "JSONDecodeError"

\* A call of make_api_request before its first attempt.
NewRequest(retry_count, retry_delay) ==
    [state |-> "running", retry_count |-> retry_count, retry_delay |-> retry_delay,
     attempt |-> 0, sent |-> 0, responses |-> << >>, sleeps |-> << >>,
     result |-> "none", via |-> "none", error |-> "none"]

\* Attempt that goes on while attempt < retry_count.
AttemptOnceMore(req, response) ==
    IF ~AttemptFails(response)
    THEN [req EXCEPT !.state = "returned", !.sent = @ + 1,
                     !.responses = Append(@, response), !.via = "response",
                     !.result = IF response.body = "empty" THEN "{}" ELSE "body"]
    ELSE [req EXCEPT !.sent = @ + 1, !.responses = Append(@, response),
                     !.sleeps = Append(@, Backoff(req.retry_delay, req.attempt)),
                     !.attempt = @ + 1]

\* One pass of the body of the loop, for the response the attempt meets.
Attempt(req, response) ==
    LET seen == [req EXCEPT !.sent = @ + 1, !.responses = Append(@, response)]
    IN IF ~AttemptFails(response)
       THEN [seen EXCEPT !.state = "returned", !.via = "response",
                         !.result = IF response.body = "empty" THEN "{}" ELSE "body"]
       ELSE IF req.attempt < req.retry_count - 1
       THEN [seen EXCEPT !.sleeps = Append(@, Backoff(req.retry_delay, req.attempt)),
                         !.attempt = @ + 1]
       ELSE [seen EXCEPT !.state = "raised", !.error = ErrorOf(response)]

\* ------------------------------------------------------------------ inputs
\* Wall-clock readings: one at midnight of the day a hardcoded date falls
\* on, two around the day whose three-month threshold is 2025-06-30 (the
\* second by clamping June 31 to June 30).
Nows == { <<2024, 12, 19, 0>>, <<2025, 3, 29, 1>>, <<2025, 3, 31, 1>> }

\* The readings the merge runs under.
MergeNows == { <<2024, 12, 19, 0>>, <<2025, 3, 31, 1>> }

\* Versions the scraped pages mention: one of the hardcoded table, one below
\* the inference cutoff, one above it.
ScrapeVersions == { <<7, 3>>, <<8, 0>>, <<12, 2>> }

NoDateText == [text |-> "", fmt |-> "none", y |-> 0, m |-> 0, d |-> 0]

DateText(text, fmt, y, m, d) == [text |-> text, fmt |-> fmt, y |-> y, m |-> m, d |-> d]

EolCell(text, fmt, y, m, d, deprecated) ==
    [text |-> text, fmt |-> fmt, y |-> y, m |-> m, d |-> d, deprecated |-> deprecated]

\* End-of-life cells: a date in words, a bare "Deprecated", an abbreviated
\* month that %B refuses, a cell with neither a date nor the word, and an
\* ISO-shaped text that is no calendar date.
cell_words == EolCell("January 15, 2023", "MonthDY", 2023, 1, 15, FALSE)
cell_deprecated == EolCell("Deprecated", "none", 0, 0, 0, TRUE)
cell_abbrev == EolCell("Sept 30, 2023", "MonthDY", 2023, 0, 30, FALSE)
cell_tbd == EolCell("TBD", "none", 0, 0, 0, FALSE)
cell_iso_bad == EolCell("2024-02-30", "ISO", 2024, 2, 30, FALSE)

EolCells == { cell_words, cell_deprecated, cell_abbrev, cell_tbd }

\* Cells in the other formats the date expression of the table branch knows.
cell_iso == EolCell("2022-12-31", "ISO", 2022, 12, 31, FALSE)

cell_mdy == EolCell("03/15/2024", "MDY", 2024, 3, 15, FALSE)

cell_month_year == EolCell("December 2024", "MonthY", 2024, 12, 0, FALSE)

cell_mdy_bad == EolCell("13/01/2024", "MDY", 2024, 13, 1, FALSE)

TableCells == EolCells \cup { cell_iso, cell_mdy, cell_month_year, cell_iso_bad, cell_mdy_bad }

TableRows == [version : ScrapeVersions \cup {NoVersion}, eol : TableCells]

Rows == [version : ScrapeVersions \cup {NoVersion}, eol : EolCells]

\* Text blocks: text with <v> for the version, the strings of the keyword
\* test that occur in its lowercased text, and its first date-like piece.
BlockTexts ==
    { [text |-> "Databricks Runtime <v> is deprecated as of June 30, 2022.",
       has |-> {"deprecate", "of"},
       date |-> DateText("June 30, 2022", "MonthDY", 2022, 6, 30)],
      [text |-> "Databricks Runtime <v> release notes, March 1, 2023",
       has |-> {"no"},
       date |-> DateText("March 1, 2023", "MonthDY", 2023, 3, 1)],
      [text |-> "Databricks Runtime <v> was released March 1, 2023",
       has |-> {},
       date |-> DateText("March 1, 2023", "MonthDY", 2023, 3, 1)],
      [text |-> "Databricks Runtime <v> is no longer supported.",
       has |-> {"no", "longer", "supported", "support", "no longer supported"},
       date |-> NoDateText] }

Blocks ==
    { [text |-> t.text, has |-> t.has, date |-> t.date, version |-> v] :
        t \in BlockTexts, v \in ScrapeVersions }

Name(text, version, has) == [text |-> text, version |-> version, has |-> has]

Offering(key, name) == [key |-> key, name |-> name]

\* Answers of the platform to get_spark_versions, as lists of offerings.
o_7_3 == Offering("7.3.x-scala2.12", Name("7.3 LTS (Scala 2.12)", <<7, 3>>, {"LTS"}))
o_8_4 == Offering("8.4.x-scala2.12", Name("8.4 (Scala 2.12)", <<8, 4>>, {}))
o_9_1 == Offering("9.1.x-scala2.12", Name("9.1 LTS (Scala 2.12)", <<9, 1>>, {"LTS"}))
o_10_4_ml == Offering("10.4.x-cpu-ml-scala2.12", Name("10.4 ML (Scala 2.12)", <<10, 4>>, {"ML"}))
o_12_2 == Offering("12.2.x-scala2.12", Name("12.2 LTS (Scala 2.12)", <<12, 2>>, {"LTS"}))
o_8_0 == Offering("8.0.x-scala2.12", Name("8.0 (Scala 2.12)", <<8, 0>>, {}))
o_custom == Offering("custom:image", Name("Custom image", NoVersion, {}))

MergeResponses ==
    { <<o_9_1, o_10_4_ml, o_7_3, o_8_4>>,
      <<o_12_2, o_custom, o_8_0, o_9_1>> }

\* Pages as the one-step merge reads them.
FailedPage == [ok |-> FALSE, rows |-> << >>, blocks |-> << >>]

Page(rows, blocks) == [ok |-> TRUE, rows |-> rows, blocks |-> blocks]

Row(version, eol) == [version |-> version, eol |-> eol]

block_release_notes ==
    [text |-> "Databricks Runtime <v> release notes, March 1, 2023",
     has |-> {"no"},
     date |-> DateText("March 1, 2023", "MonthDY", 2023, 3, 1),
     version |-> <<12, 2>>]

\* What the three pages hold when the classifier runs: the first page fails,
\* or has a table with one data row; the second fails; the third has no
\* deprecation content or one text block.
FirstPages ==
    { FailedPage,
      Page(<< Row(<<8, 0>>, cell_words) >>, << >>),
      Page(<< Row(<<12, 2>>, cell_iso_bad) >>, << >>),
      Page(<< Row(<<12, 2>>, cell_deprecated) >>, << >>) }

LastPages == { Page(<< >>, << >>), Page(<< >>, << block_release_notes >>) }

ClassifyPages == { << p, FailedPage, q >> : p \in FirstPages, q \in LastPages }

\* Explicit thresholds: the hardcoded date of 10.4 and the day before it.
Thresholds == { NoThreshold, <<2025, 6, 30, 0>>, <<2025, 6, 29, 0>> }

\* A cluster name is [text, has]: has holds the production terms that occur
\* in the lowercased text.
ClusterName(text, has) == [text |-> text, has |-> has]

name_prod == ClusterName("Prod", {"prod"})
name_devbox == ClusterName("devbox", {})
name_live == ClusterName("LIVE-ingest", {"live"})
name_prd == ClusterName("etl-prd-2", {"prd"})

\* Runtime strings of clusters: text, first major.minor, and the flavor
\* markers that occur in the lowercased text.
sv_7_3 == Name("7.3.x-scala2.12", <<7, 3>>, {})
sv_8_0 == Name("8.0.x-scala2.12", <<8, 0>>, {})
sv_9_1 == Name("9.1.x-scala2.12", <<9, 1>>, {})
sv_9_5 == Name("9.5.x-scala2.12", <<9, 5>>, {})
sv_10_4_ml == Name("10.4.x-cpu-ml-scala2.12", <<10, 4>>, {"ml"})
sv_11_3_photon == Name("11.3.x-photon-scala2.12", <<11, 3>>, {"photon"})
sv_12_2 == Name("12.2.x-scala2.12", <<12, 2>>, {})
sv_custom == Name("custom-image", NoVersion, {})
sv_genomics == Name("6.4.x-genomics-scala2.11", <<6, 4>>, {"genomics"})
sv_photon_ml == Name("8.4.x-photon-ml-scala2.12", <<8, 4>>, {"photon", "ml"})

Cluster(cluster_id, cluster_name, spark_version) ==
    [cluster_id |-> cluster_id, cluster_name |-> cluster_name,
     spark_version |-> spark_version]

\* Clusters of the workspace.
WorkspaceClusters ==
    { Cluster("c1", name_prod, sv_7_3),
      Cluster("c2", name_devbox, sv_10_4_ml),
      Cluster("c3", name_prd, sv_9_1),
      Cluster("c4", name_devbox, sv_8_0),
      Cluster("c5", name_live, sv_9_5),
      Cluster("c6", name_devbox, sv_custom),
      Cluster("c7", name_prod, sv_12_2),
      Cluster("c8", name_devbox, sv_11_3_photon) }

ListsOf(S, n) == UNION { [1..k -> S] : k \in 0..n }

\* Clusters handed to the recommender.
RecommendClusters ==
    [cluster_id : {"c1", "c2"},
     cluster_name : {name_prod, name_devbox, name_live},
     current_runtime : {sv_7_3, sv_10_4_ml, sv_genomics, sv_11_3_photon,
                        sv_photon_ml}]

o_10_4_lts_ml == Offering("10.4.x-cpu-ml-scala2.12", Name("10.4 LTS ML (Scala 2.12)", <<10, 4>>, {"LTS", "ML"}))
o_10_4_lts == Offering("10.4.x-scala2.12", Name("10.4 LTS (Scala 2.12)", <<10, 4>>, {"LTS"}))
o_12_2_ml == Offering("12.2.x-cpu-ml-scala2.12", Name("12.2 ML (Scala 2.12)", <<12, 2>>, {"ML"}))
o_7_3_genomics == Offering("7.3.x-hls-scala2.12", Name("7.3 LTS Genomics (Scala 2.12)", <<7, 3>>, {"LTS", "Genomics"}))
o_11_3_photon == Offering("11.3.x-photon-scala2.12", Name("11.3 LTS Photon (Scala 2.12)", <<11, 3>>, {"LTS", "Photon"}))
o_13_0 == Offering("13.0.x-scala2.12", Name("13.0 (Scala 2.12)", <<13, 0>>, {}))

\* Catalogs the recommender runs against: with ML but no ML LTS runtime,
\* with an ML LTS runtime older than the newest ML runtime, without ML,
\* without LTS, and empty.
RecommendResponses ==
    { << o_9_1, o_10_4_ml, o_7_3, o_8_4 >>,
      << o_10_4_lts_ml, o_10_4_lts, o_12_2_ml, o_9_1 >>,
      << o_7_3_genomics, o_11_3_photon, o_12_2, o_13_0 >>,
      << o_8_4, o_8_0 >>,
      << >> }

\* ------------------------------------------------------------------- state
NoItem == [kind |-> "none"]

\* The cache-backed calls.
CachedCalls == { "get_cluster_list", "get_spark_versions", "get_available_runtime_versions" }

NoCall == [op |-> "none"]

NoFill == [known |-> FALSE]

Fill(at, value) == [known |-> TRUE, at |-> at, value |-> value]

\* Answers of the platform: a workspace without clusters answers {}, a
\* catalog may be {}, hold only names without a version, or hold runtimes.
ClusterResponses ==
    { Response(TRUE, << >>),
      Response(FALSE, << Cluster("c1", name_prod, sv_7_3), Cluster("c2", name_devbox, sv_10_4_ml) >>) }

VersionResponses ==
    { Response(TRUE, << >>),
      Response(FALSE, << o_custom >>),
      Response(FALSE, << o_12_2, o_custom, o_8_0, o_9_1 >>) }

Upstreams == [ clusters : ClusterResponses, versions : VersionResponses ]

\* The platform where the model does not go through the cache-backed calls.
QuietUpstream == [ clusters |-> Response(TRUE, << >>), versions |-> Response(TRUE, << >>) ]

VARIABLES
    now,                \* the wall clock, a datetime
    pc,                 \* where the running operation is
    url_idx,            \* index in urls of the page being scraped
    stage,              \* "get", "tables" or "text" within that page
    nrows, nblocks,     \* rows and text blocks scanned in that page
    deprecation_dates,  \* the accumulated map, version -> record
    available_versions, \* the catalog get_available_runtime_versions returned
    cache_dates,        \* the cache entry "deprecation_dates"
    cache_set_calls,    \* calls of cache.set("deprecation_dates", ...)
    failed_urls,        \* indexes of the pages whose fetch or parse failed
    fetched_urls,       \* indexes of the pages that were fetched and parsed
    scraped,            \* versions a scraped row or block wrote a record for
    last_item,          \* the row or block the last scan step read
    clusters,           \* the cluster list the workspace returned
    deprecated_date_threshold,  \* the threshold argument of the classifier
    at_risk_clusters,   \* what get_deprecated_runtime_clusters returned
    recommendations,    \* what recommend_runtime_upgrades returned
    time,               \* time.time(), the clock the cache reads
    cache,              \* the cache files of the API calls, by key
    upstream,           \* what the platform answers to the API calls
    last_call,          \* the last call made, what it returned and fetched
    filled,             \* per call, when it last filled the cache and with what
    disk,               \* the files of the cache directory, by key
    writers,            \* the callers inside CacheManager.set, and where they are
    request,            \* the make_api_request call in progress or finished
    pool                \* the worker pool of check_library_versions

pos == << url_idx, stage, nrows, nblocks >>

history == << failed_urls, fetched_urls, scraped, last_item >>

report == << clusters, deprecated_date_threshold, at_risk_clusters,
            recommendations >>

caching == << time, cache, upstream, last_call, filled >>

io == << disk, writers, request, pool >>

vars == << now, pc, pos, deprecation_dates, available_versions, cache_dates,
           cache_set_calls, history, report, caching, io >>

\* No cache file, nobody inside set, no request and no pool yet.
Idle ==
    /\ disk = [ key \in StoreKeys |-> NoFile ]
    /\ writers = [ w \in Writers |-> NotWriting ]
    /\ request = NoRequest
    /\ pool = NoPool

\* The library statuses a cluster may report, one package each at most.
Libraries ==
    { Library(TRUE, "numpy", Version(1), "unreachable", 0),
      Library(TRUE, "pandas", Version(2), "ok", 3),
      Library(TRUE, "pandas", Version(2), "unreachable", 0),
      Library(TRUE, "six", Version(1), "ok", 3),
      Library(TRUE, "six", Version(3), "ok", 3),
      Library(TRUE, "six", Version(1), "non200", 0),
      Library(TRUE, "six", [known |-> TRUE, comparable |-> FALSE, n |-> 0], "ok", 3),
      Library(TRUE, "attrs", [known |-> FALSE, comparable |-> FALSE, n |-> 0], "ok", 3),
      Library(FALSE, "com.example:lib", Version(1), "ok", 3) }

LibraryLists ==
    { libs \in ListsOf(Libraries, MaxLibraries) :
        \A i, j \in 1..Len(libs) : i # j => libs[i].package # libs[j].package }

\* Before a pass: nothing fetched, nothing cached.
Fresh ==
    /\ pc = "start"
    /\ url_idx = 0
    /\ stage = "none"
    /\ nrows = 0
    /\ nblocks = 0
    /\ deprecation_dates = << >>
    /\ available_versions = << >>
    /\ cache_dates = NoEntry
    /\ cache_set_calls = 0
    /\ failed_urls = {}
    /\ fetched_urls = {}
    /\ scraped = {}
    /\ last_item = NoItem
    /\ clusters = << >>
    /\ deprecated_date_threshold = NoThreshold
    /\ at_risk_clusters = << >>
    /\ recommendations = << >>
    /\ time = 0
    /\ cache = [ key \in CacheKeys |-> NoEntry ]
    /\ last_call = NoCall
    /\ filled = [ op \in CachedCalls |-> NoFill ]
    /\ Idle

Init == now \in MergeNows /\ Fresh /\ upstream = QuietUpstream

\* fetch_deprecation_dates_from_docs on a cache miss: the map starts as the
\* hardcoded table.
SeedKnown ==
    /\ pc = "start"
    /\ ~cache_dates.present
    /\ pc' = "scrape"
    /\ url_idx' = 1
    /\ stage' = "get"
    /\ deprecation_dates' = known_eol_dates
    /\ UNCHANGED << io, caching, report, now, nrows, nblocks, available_versions, cache_dates,
                    cache_set_calls, history >>

\* The loop moves to the next URL, or leaves the loop after the last one.
NextUrl ==
    /\ IF url_idx < Len(urls)
       THEN /\ url_idx' = url_idx + 1
            /\ stage' = "get"
            /\ pc' = pc
       ELSE /\ url_idx' = url_idx
            /\ stage' = "none"
            /\ pc' = "infer"
    /\ nrows' = 0
    /\ nblocks' = 0
    /\ last_item' = NoItem

\* UrlFails with no except clause around the page: the error ends the pass.
UrlFailsAborts ==
    /\ pc = "scrape"
    /\ stage = "get"
    /\ failed_urls' = failed_urls \cup {url_idx}
    /\ pc' = "fault"
    /\ UNCHANGED << io, caching, report, now, pos, deprecation_dates, available_versions,
                    cache_dates, cache_set_calls, fetched_urls, scraped,
                    last_item >>

\* requests.get, raise_for_status or the parse raises: the except clause
\* logs and the loop goes on.
UrlFails ==
    /\ pc = "scrape"
    /\ stage = "get"
    /\ failed_urls' = failed_urls \cup {url_idx}
    /\ NextUrl
    /\ UNCHANGED << io, caching, report, now, deprecation_dates, available_versions, cache_dates,
                    cache_set_calls, fetched_urls, scraped >>

UrlFetched ==
    /\ pc = "scrape"
    /\ stage = "get"
    /\ stage' = "tables"
    /\ fetched_urls' = fetched_urls \cup {url_idx}
    /\ UNCHANGED << io, caching, report, now, pc, url_idx, nrows, nblocks, deprecation_dates,
                    available_versions, cache_dates, cache_set_calls,
                    failed_urls, scraped, last_item >>

ScanRow ==
    /\ pc = "scrape"
    /\ stage = "tables"
    /\ nrows < MaxRows
    /\ \E row \in Rows :
        /\ deprecation_dates' =
               TableRow(deprecation_dates, urls[url_idx], row, Today(now))
        /\ scraped' = IF deprecation_dates' # deprecation_dates
                      THEN scraped \cup {row.version} ELSE scraped
        /\ last_item' = [kind |-> "row", item |-> row]
    /\ nrows' = nrows + 1
    /\ UNCHANGED << io, caching, report, now, pc, url_idx, stage, nblocks, available_versions,
                    cache_dates, cache_set_calls, failed_urls, fetched_urls >>

ScanText ==
    /\ pc = "scrape"
    /\ stage \in {"tables", "text"}
    /\ nblocks < MaxBlocks
    /\ \E block \in Blocks :
        /\ deprecation_dates' = TextBlock(deprecation_dates, urls[url_idx], block)
        /\ scraped' = IF deprecation_dates' # deprecation_dates
                      THEN scraped \cup {block.version} ELSE scraped
        /\ last_item' = [kind |-> "block", item |-> block]
    /\ stage' = "text"
    /\ nblocks' = nblocks + 1
    /\ UNCHANGED << io, caching, report, now, pc, url_idx, nrows, available_versions, cache_dates,
                    cache_set_calls, failed_urls, fetched_urls >>

UrlDone ==
    /\ pc = "scrape"
    /\ stage \in {"tables", "text"}
    /\ NextUrl
    /\ UNCHANGED << io, caching, report, now, deprecation_dates, available_versions, cache_dates,
                    cache_set_calls, failed_urls, fetched_urls, scraped >>

\* The inference pass, with the catalog the platform answers.
Infer ==
    /\ pc = "infer"
    /\ \E response \in MergeResponses :
        /\ available_versions' = get_available_runtime_versions(response)
        /\ deprecation_dates' =
               InferencePass(deprecation_dates,
                             VersionNumbers(available_versions'), Today(now))
    /\ pc' = "store"
    /\ UNCHANGED << io, caching, report, now, pos, cache_dates, cache_set_calls, history >>

\* get_spark_versions raises once its retries are used up: nothing catches it.
InferFault ==
    /\ pc = "infer"
    /\ pc' = "fault"
    /\ UNCHANGED << io, caching, report, now, pos, deprecation_dates, available_versions,
                    cache_dates, cache_set_calls, history >>

\* cache.set: the write, or a logged failure that leaves the entry as it was.
CacheSet ==
    /\ pc = "store"
    /\ cache_set_calls' = cache_set_calls + 1
    /\ cache_dates' \in {Entry(deprecation_dates), cache_dates}
    /\ pc' = "done"
    /\ UNCHANGED << io, caching, report, now, pos, deprecation_dates, available_versions, history >>

Next ==
    \/ SeedKnown
    \/ UrlFails
    \/ UrlFetched
    \/ ScanRow
    \/ ScanText
    \/ UrlDone
    \/ Infer
    \/ InferFault
    \/ CacheSet

Spec == Init /\ [][Next]_vars

\* ------------------------------------------------- classification in a pass
\* get_deprecated_runtime_clusters first obtains the deprecation map and the
\* catalog: the merge as one step.
FetchAll ==
    /\ pc = "start"
    /\ ~cache_dates.present
    /\ \E pages \in ClassifyPages, response \in MergeResponses :
        /\ deprecation_dates' = FetchDeprecationDates(pages, response, Today(now))
        /\ available_versions' = get_available_runtime_versions(response)
        /\ failed_urls' = { i \in 1..Len(urls) : ~pages[i].ok }
        /\ fetched_urls' = { i \in 1..Len(urls) : pages[i].ok }
    /\ cache_dates' = Entry(deprecation_dates')
    /\ cache_set_calls' = cache_set_calls + 1
    /\ pc' = "fetched"
    /\ UNCHANGED << io, caching, report, now, pos, scraped, last_item >>

\* The loop over the cluster list.
Classify ==
    /\ pc = "fetched"
    /\ \E cluster_list \in ListsOf(WorkspaceClusters, MaxClusters),
          threshold \in Thresholds :
        /\ clusters' = cluster_list
        /\ deprecated_date_threshold' = threshold
        /\ at_risk_clusters' =
               get_deprecated_runtime_clusters(threshold, deprecation_dates,
                                               available_versions, cluster_list, now)
    /\ pc' = "classified"
    /\ UNCHANGED << io, caching, now, pos, deprecation_dates, available_versions,
                    cache_dates, cache_set_calls, history, recommendations >>

\* The report: the recommender runs on what the classifier returned.
RecommendAtRisk ==
    /\ pc = "classified"
    /\ LET result == recommend_runtime_upgrades(at_risk_clusters, available_versions)
       IN /\ recommendations' = result.value
          /\ pc' = IF result.ok THEN "recommended" ELSE "error"
    /\ UNCHANGED << io, caching, now, pos, deprecation_dates, available_versions,
                    cache_dates, cache_set_calls, history, clusters,
                    deprecated_date_threshold, at_risk_clusters >>

\* UpstreamFails with an except clause that logs the fault and goes on with
\* an empty list.
UpstreamFailsSwallowed ==
    /\ pc = "fetched"
    /\ last_call' = [op |-> "make_api_request", endpoint |-> "2.0/clusters/list",
                     raised |-> TRUE]
    /\ clusters' = << >>
    /\ at_risk_clusters' = << >>
    /\ pc' = "classified"
    /\ UNCHANGED << io, now, pos, deprecation_dates, available_versions,
                    cache_dates, cache_set_calls, history, recommendations,
                    deprecated_date_threshold, time, cache, upstream, filled >>

\* make_api_request raises once its retries are used up, in the catalog
\* fetch of the merge or of the classifier, or in the cluster-list fetch:
\* nothing between it and the caller of get_deprecated_runtime_clusters
\* catches it.
UpstreamFails ==
    /\ pc \in {"start", "fetched"}
    /\ \E endpoint \in (IF pc = "start" THEN {"2.0/clusters/spark-versions"}
                         ELSE {"2.0/clusters/spark-versions", "2.0/clusters/list"}) :
        last_call' = [op |-> "make_api_request", endpoint |-> endpoint, raised |-> TRUE]
    /\ pc' = "fault"
    /\ UNCHANGED << io, report, now, pos, deprecation_dates, available_versions,
                    cache_dates, cache_set_calls, history, time, cache,
                    upstream, filled >>

InitClassify == now \in Nows /\ Fresh /\ upstream = QuietUpstream

NextClassify == FetchAll \/ Classify \/ RecommendAtRisk \/ UpstreamFails

SpecClassify == InitClassify /\ [][NextClassify]_vars

\* ------------------------------------------------------------ recommending
ResolveCatalog ==
    /\ pc = "start"
    /\ \E response \in RecommendResponses :
        available_versions' = get_available_runtime_versions(response)
    /\ pc' = "resolved"
    /\ UNCHANGED << io, caching, report, now, pos, deprecation_dates, cache_dates,
                    cache_set_calls, history >>

RecommendUpgrades ==
    /\ pc = "resolved"
    /\ \E cluster_list \in ListsOf(RecommendClusters, MaxClusters) :
        LET result == recommend_runtime_upgrades(cluster_list, available_versions)
        IN /\ clusters' = cluster_list
           /\ recommendations' = result.value
           /\ pc' = IF result.ok THEN "recommended" ELSE "error"
    /\ UNCHANGED << io, caching, now, pos, deprecation_dates, available_versions,
                    cache_dates, cache_set_calls, history,
                    deprecated_date_threshold, at_risk_clusters >>

InitRecommend == now \in MergeNows /\ Fresh /\ upstream = QuietUpstream

NextRecommend == ResolveCatalog \/ RecommendUpgrades

SpecRecommend == InitRecommend /\ [][NextRecommend]_vars


\* ------------------------------------------------------ cache-backed calls
\* The clock advances between calls.
Tick ==
    /\ time < MaxTime
    /\ time' = time + 1
    /\ UNCHANGED << io, now, pc, pos, deprecation_dates, available_versions,
                    cache_dates, cache_set_calls, history, report, cache,
                    upstream, last_call, filled >>

\* What a cache-backed call leaves behind.
Called(op, outcome) ==
    /\ cache' = outcome.files
    /\ last_call' = [op |-> op, at |-> time, result |-> outcome.result,
                     fetched |-> outcome.fetched]
    /\ UNCHANGED << io, now, pc, pos, deprecation_dates, available_versions,
                    cache_dates, cache_set_calls, history, report, time,
                    upstream >>

CallClusterList ==
    LET outcome == get_cluster_list(cache, time, upstream.clusters)
    IN /\ Called("get_cluster_list", outcome)
       /\ filled' = IF outcome.fetched # {}
                    THEN [filled EXCEPT !["get_cluster_list"] = Fill(time, outcome.result)]
                    ELSE filled

CallSparkVersions ==
    LET outcome == get_spark_versions(cache, time, upstream.versions)
    IN /\ Called("get_spark_versions", outcome)
       /\ filled' = IF outcome.fetched # {}
                    THEN [filled EXCEPT !["get_spark_versions"] = Fill(time, outcome.result)]
                    ELSE filled

CallRuntimeVersions ==
    LET outcome == CachedRuntimeVersions(cache, time, upstream.versions)
    IN /\ Called("get_available_runtime_versions", outcome)
       /\ filled' =
            IF outcome.fetched = {} THEN filled
            ELSE IF "2.0/clusters/spark-versions" \in outcome.fetched
            THEN [filled EXCEPT
                    !["get_available_runtime_versions"] = Fill(time, outcome.result),
                    !["get_spark_versions"] = Fill(time, upstream.versions)]
            ELSE [filled EXCEPT
                    !["get_available_runtime_versions"] = Fill(time, outcome.result)]

\* A bare cache.get(key).
CacheLookup ==
    /\ \E key \in CacheKeys :
        last_call' = [op |-> "cache.get", at |-> time, key |-> key,
                      result |-> CacheGet(cache, key, time), fetched |-> {}]
    /\ UNCHANGED << io, now, pc, pos, deprecation_dates, available_versions,
                    cache_dates, cache_set_calls, history, report, time,
                    cache, upstream, filled >>

InitCache == now \in { <<2024, 12, 19, 0>> } /\ Fresh /\ upstream \in Upstreams

NextCache ==
    Tick \/ CallClusterList \/ CallSparkVersions \/ CallRuntimeVersions \/ CacheLookup

SpecCache == InitCache /\ [][NextCache]_vars

\* ------------------------------------------------- one table, row by row
\* The pass at the table of the last documentation page, the pages before
\* it having failed: the map is still the hardcoded table.
InitTable ==
    /\ now \in MergeNows
    /\ pc = "scrape"
    /\ url_idx = Len(urls)
    /\ stage = "tables"
    /\ nrows = 0
    /\ nblocks = 0
    /\ deprecation_dates = known_eol_dates
    /\ available_versions = << >>
    /\ cache_dates = NoEntry
    /\ cache_set_calls = 0
    /\ failed_urls = 1..(Len(urls) - 1)
    /\ fetched_urls = {Len(urls)}
    /\ scraped = {}
    /\ last_item = NoItem
    /\ clusters = << >>
    /\ deprecated_date_threshold = NoThreshold
    /\ at_risk_clusters = << >>
    /\ recommendations = << >>
    /\ time = 0
    /\ cache = [ key \in CacheKeys |-> NoEntry ]
    /\ last_call = NoCall
    /\ filled = [ op \in CachedCalls |-> NoFill ]
    /\ Idle
    /\ upstream = QuietUpstream

\* The body of the loop over the data rows, for the next row of the table.
ScanTableRow ==
    /\ pc = "scrape"
    /\ stage = "tables"
    /\ nrows < MaxTableRows
    /\ \E row \in TableRows :
        /\ deprecation_dates' =
               TableRow(deprecation_dates, urls[url_idx], row, Today(now))
        /\ scraped' = IF deprecation_dates' # deprecation_dates
                      THEN scraped \cup {row.version} ELSE scraped
        /\ last_item' = [kind |-> "row", item |-> row]
    /\ nrows' = nrows + 1
    /\ UNCHANGED << io, caching, report, now, pc, url_idx, stage, nblocks, available_versions,
                    cache_dates, cache_set_calls, failed_urls, fetched_urls >>

\* The rest of the pass after the last row, on a page without text
\* mentions: the loop over the URLs ends, the inference pass runs with the
\* catalog the platform answers, cache.set stores the map and the map is
\* returned.
FinishPass ==
    /\ pc = "scrape"
    /\ stage = "tables"
    /\ url_idx = Len(urls)
    /\ \E response \in MergeResponses :
        /\ available_versions' = get_available_runtime_versions(response)
        /\ deprecation_dates' =
               InferencePass(deprecation_dates,
                             VersionNumbers(available_versions'), Today(now))
    /\ cache_set_calls' = cache_set_calls + 1
    /\ cache_dates' \in {Entry(deprecation_dates'), cache_dates}
    /\ stage' = "none"
    /\ pc' = "done"
    /\ UNCHANGED << io, caching, report, now, url_idx, nrows, nblocks, history >>

NextTable == ScanTableRow \/ FinishPass

SpecTable == InitTable /\ [][NextTable]_vars

\* ------------------------------------------------ the cache manager alone
\* Whether get would return the entry of a key: "absent", "fresh" or
\* "expired".
EntryState(files, key, t) ==
    IF ~files[key].exists THEN "absent"
    ELSE IF CacheFresh(files[key], t) THEN "fresh" ELSE "expired"

\* A call of set; the storage may fail in it.
SetCall ==
    /\ \E key \in StoreKeys, data \in Payloads, fault \in {"none", "open", "write"} :
        /\ disk' = StoreSet(disk, key, data, time, fault)
        /\ last_call' = [op |-> "CacheManager.set", at |-> time, key |-> key,
                         data |-> data, failed |-> SetFails(data, fault),
                         before |-> EntryState(disk, key, time)]
    /\ UNCHANGED << now, pc, pos, deprecation_dates, available_versions,
                    cache_dates, cache_set_calls, history, report, time,
                    cache, upstream, filled, writers, request, pool >>

\* A call of get; the storage may fail in it.
GetCall ==
    /\ \E key \in StoreKeys, fault \in {"none", "read"} :
        last_call' = [op |-> "CacheManager.get", at |-> time, key |-> key,
                      result |-> StoreGet(disk, key, time, fault),
                      failed |-> (fault = "read"),
                      before |-> EntryState(disk, key, time)]
    /\ UNCHANGED << now, pc, pos, deprecation_dates, available_versions,
                    cache_dates, cache_set_calls, history, report, time,
                    cache, upstream, filled, io >>

InitStore == now \in { <<2024, 12, 19, 0>> } /\ Fresh /\ upstream = QuietUpstream

NextStore == Tick \/ SetCall \/ GetCall

SpecStore == InitStore /\ [][NextStore]_vars

\* -------------------------------------------------- two callers inside set
\* The key both callers write.
RaceKey == "pypi_numpy"

\* The payload the key held before the callers came, if it held one.
OldText == << "[", "7", "]" >>

\* open(cache_file, 'w'): the file is there and empty.
SetOpens ==
    /\ \E w \in Writers, text \in RaceTexts :
        /\ writers[w].at = "idle"
        /\ writers' = [writers EXCEPT ![w] = [at |-> "opened", text |-> text]]
    /\ disk' = [disk EXCEPT ![RaceKey] = File(<< >>, time)]
    /\ UNCHANGED << now, pc, pos, deprecation_dates, available_versions,
                    cache_dates, cache_set_calls, history, report, caching,
                    request, pool >>

\* The end of the with block: what json.dump put into the buffer of the
\* file object is written, and the file is closed.
SetWrites ==
    /\ \E w \in Writers :
        /\ writers[w].at = "opened"
        /\ writers' = [writers EXCEPT ![w].at = "done"]
        /\ disk' = [disk EXCEPT ![RaceKey] =
                       File(WriteAtStart(disk[RaceKey].text, writers[w].text), time)]
    /\ UNCHANGED << now, pc, pos, deprecation_dates, available_versions,
                    cache_dates, cache_set_calls, history, report, caching,
                    request, pool >>

\* A get of the key by some caller, at any moment.
RaceGetCall ==
    /\ last_call' = [op |-> "CacheManager.get", at |-> time, key |-> RaceKey,
                     result |-> RaceGet(disk, RaceKey, time),
                     writers |-> writers]
    /\ UNCHANGED << now, pc, pos, deprecation_dates, available_versions,
                    cache_dates, cache_set_calls, history, report, time,
                    cache, upstream, filled, io >>

InitRace ==
    /\ now \in { <<2024, 12, 19, 0>> }
    /\ pc = "start"
    /\ url_idx = 0
    /\ stage = "none"
    /\ nrows = 0
    /\ nblocks = 0
    /\ deprecation_dates = << >>
    /\ available_versions = << >>
    /\ cache_dates = NoEntry
    /\ cache_set_calls = 0
    /\ failed_urls = {}
    /\ fetched_urls = {}
    /\ scraped = {}
    /\ last_item = NoItem
    /\ clusters = << >>
    /\ deprecated_date_threshold = NoThreshold
    /\ at_risk_clusters = << >>
    /\ recommendations = << >>
    /\ time = 0
    /\ cache = [ key \in CacheKeys |-> NoEntry ]
    /\ upstream = QuietUpstream
    /\ last_call = NoCall
    /\ filled = [ op \in CachedCalls |-> NoFill ]
    /\ disk \in { [ key \in StoreKeys |-> NoFile ],
                  [ key \in StoreKeys |-> IF key = RaceKey THEN File(OldText, 0) ELSE NoFile ] }
    /\ writers = [ w \in Writers |-> NotWriting ]
    /\ request = NoRequest
    /\ pool = NoPool

NextRace == SetOpens \/ SetWrites \/ RaceGetCall

SpecRace == InitRace /\ [][NextRace]_vars

\* ------------------------------------------------------ one API request
\* make_api_request is called.
StartRequest ==
    /\ request = NoRequest
    /\ \E retry_count \in 0..MaxRetries, retry_delay \in {1, 2} :
        request' = NewRequest(retry_count, retry_delay)
    /\ UNCHANGED << now, pc, pos, deprecation_dates, available_versions,
                    cache_dates, cache_set_calls, history, report, caching,
                    disk, writers, pool >>

\* for attempt in range(retry_count): the next attempt.
AttemptRequest ==
    /\ request.state = "running"
    /\ request.attempt < request.retry_count
    /\ \E response \in Responses : request' = Attempt(request, response)
    /\ UNCHANGED << now, pc, pos, deprecation_dates, available_versions,
                    cache_dates, cache_set_calls, history, report, caching,
                    disk, writers, pool >>

\* The loop is over without a return or a raise: return {}.
ReturnFallback ==
    /\ request.state = "running"
    /\ ~(request.attempt < request.retry_count)
    /\ request' = [request EXCEPT !.state = "returned", !.result = "{}",
                                  !.via = "fallback"]
    /\ UNCHANGED << now, pc, pos, deprecation_dates, available_versions,
                    cache_dates, cache_set_calls, history, report, caching,
                    disk, writers, pool >>

InitRequest == now \in { <<2024, 12, 19, 0>> } /\ Fresh /\ upstream = QuietUpstream

NextRequest == StartRequest \/ AttemptRequest \/ ReturnFallback

SpecRequest == InitRequest /\ [][NextRequest]_vars

\* ------------------------------------------------------ the library checks
\* check_library_versions hands the library statuses of the cluster to the
\* pool.
SubmitLibraries ==
    /\ pool = NoPool
    /\ \E libs \in LibraryLists :
        pool' = [state |-> "running", libs |-> libs, running |-> {},
                 results |-> [ i \in 1..Len(libs) |-> [done |-> FALSE] ],
                 order |-> << >>, collected |-> << >>, outdated |-> << >>]
    /\ UNCHANGED << now, pc, pos, deprecation_dates, available_versions,
                    cache_dates, cache_set_calls, history, report, caching,
                    disk, writers, request >>

\* A free worker takes the next library status of the input.
WorkerStarts ==
    /\ pool.state = "running"
    /\ Cardinality(pool.running) < max_workers
    /\ \E i \in 1..Len(pool.libs) :
        /\ ~pool.results[i].done
        /\ i \notin pool.running
        /\ \A j \in 1..(i - 1) : pool.results[j].done \/ j \in pool.running
        /\ pool' = [pool EXCEPT !.running = @ \cup {i}]
    /\ UNCHANGED << now, pc, pos, deprecation_dates, available_versions,
                    cache_dates, cache_set_calls, history, report, caching,
                    disk, writers, request >>

\* A worker finishes its check, in any order among the running ones.
WorkerFinishes ==
    /\ pool.state = "running"
    /\ \E i \in pool.running :
        pool' = [pool EXCEPT
                    !.running = @ \ {i},
                    !.results[i] = [done |-> TRUE, value |-> process_library(pool.libs[i])],
                    !.order = Append(@, i)]
    /\ UNCHANGED << now, pc, pos, deprecation_dates, available_versions,
                    cache_dates, cache_set_calls, history, report, caching,
                    disk, writers, request >>

\* All checks are done: the results are put in a list, filtered and sorted.
CollectResults ==
    /\ pool.state = "running"
    /\ \A i \in 1..Len(pool.libs) : pool.results[i].done
    /\ LET values == [ i \in 1..Len(pool.libs) |-> pool.results[i].value ]
           collected == Collected(values, pool.order)
       IN pool' = [pool EXCEPT !.state = "collected", !.collected = collected,
                               !.outdated = Outdated(collected)]
    /\ UNCHANGED << now, pc, pos, deprecation_dates, available_versions,
                    cache_dates, cache_set_calls, history, report, caching,
                    disk, writers, request >>

InitLibraries == now \in { <<2024, 12, 19, 0>> } /\ Fresh /\ upstream = QuietUpstream

NextLibraries == SubmitLibraries \/ WorkerStarts \/ WorkerFinishes \/ CollectResults

SpecLibraries == InitLibraries /\ [][NextLibraries]_vars

\* ================================================================== claims
\* Versions the claims about the merge are asked of: majors 0..ProbeMajor,
\* minors 0..ProbeMinor.
ProbeMajor == 13
ProbeMinor == 15

ProbeVersions == (0..ProbeMajor) \X (0..ProbeMinor)

CatalogVersions == { available_versions[i].version : i \in 1..Len(available_versions) }

MarkedNote == "Marked as deprecated without specific date"

\* The step just taken scanned a table row, or a text block.
RowStep == pc = "scrape" /\ nrows' = nrows + 1

BlockStep == pc = "scrape" /\ nblocks' = nblocks + 1

\* C1: on a cache miss the returned map holds, for every version of the
\* hardcoded table, the hardcoded date and the source "hardcoded", whatever
\* the scraped pages contain.
C1_HardcodedKept ==
    pc = "done" =>
        \A v \in DOMAIN known_eol_dates :
            /\ v \in DOMAIN deprecation_dates
            /\ deprecation_dates[v].deprecation_date = known_eol_dates[v].deprecation_date
            /\ deprecation_dates[v].source = "hardcoded"

\* C5: once a version has a record in the accumulated map, no later step
\* replaces or changes that record.
C5_FirstWriterWins ==
    [][ \A v \in DOMAIN deprecation_dates :
            /\ v \in DOMAIN deprecation_dates'
            /\ deprecation_dates'[v] = deprecation_dates[v] ]_vars

\* C6, as claimed: the inference pass gives every numeric version below the
\* cutoff that has no record yet and is not in the catalog a record with
\* source "inference" dated today, and gives no other version a record.
C6_InferenceEveryVersion ==
    [][ (pc = "infer" /\ pc' = "store") =>
          \A v \in ProbeVersions :
            IF v \in DOMAIN deprecation_dates
            THEN v \in DOMAIN deprecation_dates'
                 /\ deprecation_dates'[v] = deprecation_dates[v]
            ELSE IF (v[1] < 9 \/ (v[1] = 9 /\ v[2] < 1)) /\ v \notin CatalogVersions'
            THEN v \in DOMAIN deprecation_dates'
                 /\ deprecation_dates'[v].source = "inference"
                 /\ deprecation_dates'[v].deprecation_date = Today(now)
            ELSE v \notin DOMAIN deprecation_dates' ]_vars

\* C6, amended: the same for the versions the pass walks, major 1..12 and
\* minor 0..14; a version outside that range gets no inference record.
C6_InferenceInRange ==
    [][ (pc = "infer" /\ pc' = "store") =>
          \A v \in ProbeVersions :
            IF v \in DOMAIN deprecation_dates
            THEN v \in DOMAIN deprecation_dates'
                 /\ deprecation_dates'[v] = deprecation_dates[v]
            ELSE IF /\ v[1] \in 1..12 /\ v[2] \in 0..14
                    /\ (v[1] < 9 \/ (v[1] = 9 /\ v[2] < 1))
                    /\ v \notin CatalogVersions'
            THEN v \in DOMAIN deprecation_dates'
                 /\ deprecation_dates'[v].source = "inference"
                 /\ deprecation_dates'[v].deprecation_date = Today(now)
            ELSE v \notin DOMAIN deprecation_dates' ]_vars

\* The pass has run with 8.0 in the catalog and 8.1 not: 8.1 is inferred,
\* 8.0 and 9.2 are not, and a scraped record of 12.2 is still there.
C6_Witness ==
    /\ pc = "store"
    /\ <<8, 0>> \in CatalogVersions
    /\ <<8, 0>> \notin DOMAIN deprecation_dates
    /\ <<8, 1>> \in DOMAIN deprecation_dates
    /\ deprecation_dates[<<8, 1>>].source = "inference"
    /\ <<9, 2>> \notin DOMAIN deprecation_dates
    /\ <<12, 2>> \in DOMAIN deprecation_dates

\* C7: failures of any of the documentation URLs never end the pass: every
\* URL gets its turn, in order; the only fault is the one of the catalog
\* fetch after the loop; the returned map holds the hardcoded versions and
\* what the fetched pages wrote, all of it from fetched pages; the inference
\* pass and the cache write have run.
C7_UrlFailureTolerated ==
    /\ failed_urls \cap fetched_urls = {}
    /\ pc = "scrape" =>
          failed_urls \cup fetched_urls =
              IF stage = "get" THEN 1..(url_idx - 1) ELSE 1..url_idx
    /\ pc \in {"infer", "store", "done", "fault"} =>
          failed_urls \cup fetched_urls = 1..Len(urls)
    /\ pc \in {"store", "done"} =>
          \A v \in (1..12) \X (0..14) :
              ((v[1] < 9 \/ (v[1] = 9 /\ v[2] < 1)) /\ v \notin CatalogVersions)
                  => v \in DOMAIN deprecation_dates
    /\ pc = "done" =>
          /\ DOMAIN known_eol_dates \subseteq DOMAIN deprecation_dates
          /\ scraped \subseteq DOMAIN deprecation_dates
          /\ \A v \in DOMAIN deprecation_dates : \A i \in 1..Len(urls) :
                deprecation_dates[v].source = urls[i] => i \in fetched_urls
          /\ cache_set_calls = 1

\* The first URL failed, the second was fetched and wrote a record, and the
\* pass returned with the map stored in the cache.
C7_Witness ==
    /\ pc = "done"
    /\ 1 \in failed_urls
    /\ 3 \in failed_urls
    /\ \E v \in scraped : deprecation_dates[v].source = urls[2]
    /\ cache_dates.present

C9_TextNeedsKeyword ==
    [][ (BlockStep /\ last_item'.kind = "block"
           /\ deprecation_dates' # deprecation_dates)
        => /\ \E term \in terms : term \in last_item'.item.has
           /\ last_item'.item.version # NoVersion
           /\ last_item'.item.date.fmt # "none" ]_vars

\* ----------------------------------------------- claims about the recommender
Runtimes == { available_versions[k] : k \in 1..Len(available_versions) }

\* The catalog runtimes whose name has all the markers and whose version no
\* other such runtime exceeds: empty when no runtime has the markers.
Newest(markers) ==
    { rt \in Runtimes :
        /\ markers \subseteq rt.name.has
        /\ \A other \in Runtimes :
               markers \subseteq other.name.has
                   => ~VersionLess(rt.version, other.version) }

NamedProduction(cluster) ==
    cluster.cluster_name.has \cap {"prod", "production", "prd", "live"} # {}

\* The later rules of the production order: Genomics, Photon, LTS, catalog.
LaterRules(cluster) ==
    IF "genomics" \in cluster.current_runtime.has /\ Newest({"Genomics"}) # {}
    THEN Newest({"Genomics"})
    ELSE IF "photon" \in cluster.current_runtime.has /\ Newest({"Photon"}) # {}
    THEN Newest({"Photon"})
    ELSE IF Newest({"LTS"}) # {} THEN Newest({"LTS"})
    ELSE Newest({})

\* The position whose recommendation the map keeps for its cluster id.
Kept(i) ==
    \A j \in (i + 1)..Len(clusters) : clusters[j].cluster_id # clusters[i].cluster_id

RecommendedFrom(cluster, choice) ==
    \E rt \in choice :
        /\ recommendations[cluster.cluster_id].runtime_key = rt.key
        /\ recommendations[cluster.cluster_id].runtime_name = rt.name

\* C4 as stated: a production ML cluster gets the newest ML+LTS runtime, and
\* with no ML+LTS runtime in the catalog it falls through to the later rules.
C4_ProductionOrderStrict ==
    pc = "recommended" =>
        \A i \in 1..Len(clusters) :
            (NamedProduction(clusters[i]) /\ Kept(i)) =>
                RecommendedFrom(clusters[i],
                    IF "ml" \in clusters[i].current_runtime.has
                       /\ Newest({"ML", "LTS"}) # {}
                    THEN Newest({"ML", "LTS"})
                    ELSE LaterRules(clusters[i]))

\* C4: with a catalog that is not empty, a production cluster is recommended
\* the first available of: for an ML runtime the newest ML+LTS runtime or,
\* the catalog having none, the newest ML runtime; for a Genomics runtime the
\* newest Genomics runtime; for a Photon runtime the newest Photon runtime;
\* the newest LTS runtime; the newest runtime of the catalog.
C4_ProductionOrder ==
    pc = "recommended" =>
        \A i \in 1..Len(clusters) :
            (NamedProduction(clusters[i]) /\ Kept(i)) =>
                RecommendedFrom(clusters[i],
                    IF "ml" \in clusters[i].current_runtime.has
                       /\ Newest({"ML"}) # {}
                    THEN (IF Newest({"ML", "LTS"}) # {}
                          THEN Newest({"ML", "LTS"}) ELSE Newest({"ML"}))
                    ELSE LaterRules(clusters[i]))

\* A production ML cluster recommended the newest ML runtime of a catalog
\* that has LTS runtimes but none that is both ML and LTS.
C4_Witness ==
    /\ pc = "recommended"
    /\ Newest({"ML", "LTS"}) = {}
    /\ Newest({"LTS"}) # {}
    /\ \E i \in 1..Len(clusters) :
        /\ NamedProduction(clusters[i])
        /\ Kept(i)
        /\ "ml" \in clusters[i].current_runtime.has
        /\ RecommendedFrom(clusters[i], Newest({"ML"}))

\* The rationale strings of the non-production branches.
DevelopmentRationales ==
    { "Latest ML runtime recommended for ML development workloads",
      "Latest Genomics runtime recommended for genomics development",
      "Latest Photon runtime recommended for SQL development",
      "Latest runtime recommended for development workloads" }

\* C12: a non-production cluster is recommended the first available of: the
\* newest ML runtime for an ML runtime, the newest Genomics runtime for a
\* Genomics runtime, the newest Photon runtime for a Photon runtime,
\* otherwise the newest runtime of the catalog; no LTS rule is used.
C12_DevelopmentOrder ==
    pc = "recommended" =>
        \A i \in 1..Len(clusters) :
            (~NamedProduction(clusters[i]) /\ Kept(i)) =>
                /\ RecommendedFrom(clusters[i],
                       IF "ml" \in clusters[i].current_runtime.has
                          /\ Newest({"ML"}) # {}
                       THEN Newest({"ML"})
                       ELSE IF "genomics" \in clusters[i].current_runtime.has
                               /\ Newest({"Genomics"}) # {}
                       THEN Newest({"Genomics"})
                       ELSE IF "photon" \in clusters[i].current_runtime.has
                               /\ Newest({"Photon"}) # {}
                       THEN Newest({"Photon"})
                       ELSE Newest({}))
                /\ recommendations[clusters[i].cluster_id].rationale
                       \in DevelopmentRationales

\* A non-production cluster of a plain runtime recommended the newest
\* runtime of a catalog whose newest LTS runtime is an older one.
C12_Witness ==
    /\ pc = "recommended"
    /\ Newest({"LTS"}) # {}
    /\ Newest({"LTS"}) \cap Newest({}) = {}
    /\ \E i \in 1..Len(clusters) :
        /\ ~NamedProduction(clusters[i])
        /\ Kept(i)
        /\ clusters[i].current_runtime.has = {}
        /\ RecommendedFrom(clusters[i], Newest({}))

\* The cluster id of position i is the id of no other position.
OwnId(i) ==
    \A j \in 1..Len(clusters) : j # i => clusters[j].cluster_id # clusters[i].cluster_id

\* What the recommender returns for the cluster alone.
Alone(cluster) ==
    recommend_runtime_upgrades(<< cluster >>, available_versions).value[cluster.cluster_id]

\* C13: for a fixed catalog the recommendation and rationale of a cluster
\* with an id of its own are those the recommender gives the cluster alone,
\* whatever other clusters the list holds and in whatever order; two
\* clusters of equal name and runtime get equal recommendations; and a
\* production ML cluster gets an ML+LTS runtime, when the catalog has one,
\* with the ML LTS rationale.
C13_IndependentOfOthers ==
    pc = "recommended" =>
        \A i \in 1..Len(clusters) :
            OwnId(i) =>
                /\ recommendations[clusters[i].cluster_id] = Alone(clusters[i])
                /\ \A j \in 1..Len(clusters) :
                       (/\ OwnId(j)
                        /\ clusters[j].cluster_name = clusters[i].cluster_name
                        /\ clusters[j].current_runtime = clusters[i].current_runtime)
                       => recommendations[clusters[j].cluster_id]
                              = recommendations[clusters[i].cluster_id]
                /\ (/\ NamedProduction(clusters[i])
                    /\ "ml" \in clusters[i].current_runtime.has
                    /\ Newest({"ML", "LTS"}) # {})
                   => /\ RecommendedFrom(clusters[i], Newest({"ML", "LTS"}))
                      /\ recommendations[clusters[i].cluster_id].rationale
                             = "Latest ML LTS runtime recommended for production ML workloads"

\* A production ML cluster recommended an ML+LTS runtime after a cluster
\* that was recommended something else.
C13_Witness ==
    /\ pc = "recommended"
    /\ Len(clusters) = 2
    /\ OwnId(1)
    /\ NamedProduction(clusters[2])
    /\ "ml" \in clusters[2].current_runtime.has
    /\ Newest({"ML", "LTS"}) # {}
    /\ RecommendedFrom(clusters[2], Newest({"ML", "LTS"}))
    /\ recommendations[clusters[1].cluster_id] # recommendations[clusters[2].cluster_id]

\* ------------------------------------------------ claims about the classifier
\* The threshold the classifier compares with.
EffectiveThreshold ==
    IF deprecated_date_threshold = NoThreshold THEN AddMonths(now, 3)
    ELSE deprecated_date_threshold

\* Positions of the cluster list, and of the output, that belong to a
\* cluster id.
Occurrences(cluster_id) ==
    { i \in 1..Len(clusters) : clusters[i].cluster_id = cluster_id }

EntriesOf(cluster_id) ==
    { j \in 1..Len(at_risk_clusters) : at_risk_clusters[j].cluster_id = cluster_id }

\* Every occurrence of the cluster is in the output, with this status.
ReturnedAs(cluster, status) ==
    /\ Cardinality(EntriesOf(cluster.cluster_id))
           = Cardinality(Occurrences(cluster.cluster_id))
    /\ \A j \in EntriesOf(cluster.cluster_id) :
           at_risk_clusters[j].status = status

HasValidDate(version) ==
    /\ version # NoVersion
    /\ version \in DOMAIN deprecation_dates
    /\ ValidDate(deprecation_dates[version].deprecation_date)

DateOf(cluster) ==
    Midnight(deprecation_dates[cluster.spark_version.version].deprecation_date)

\* C2: a cluster whose version has a record with a calendar date is returned
\* as DEPRECATED when the date is at or before now, as SOON_DEPRECATED when
\* the date is after now and at or before the threshold, and is not returned
\* when the date is after the threshold; the boundaries date = now and
\* date = threshold fall on the DEPRECATED and SOON_DEPRECATED side.
C2_ClassifiedByDate ==
    pc = "classified" =>
        \A i \in 1..Len(clusters) :
            LET cluster == clusters[i]
            IN HasValidDate(cluster.spark_version.version) =>
                /\ DtLeq(DateOf(cluster), now) => ReturnedAs(cluster, "DEPRECATED")
                /\ (~DtLeq(DateOf(cluster), now)
                    /\ DtLeq(DateOf(cluster), EffectiveThreshold))
                       => ReturnedAs(cluster, "SOON_DEPRECATED")
                /\ ~DtLeq(DateOf(cluster), EffectiveThreshold)
                    /\ ~DtLeq(DateOf(cluster), now)
                       => EntriesOf(cluster.cluster_id) = {}

\* A pass that returned one cluster whose date is exactly now as DEPRECATED
\* and one whose date is exactly the threshold as SOON_DEPRECATED.
C2_Witness ==
    /\ pc = "classified"
    /\ Len(at_risk_clusters) = 2
    /\ \E i, j \in 1..Len(clusters) :
        /\ HasValidDate(clusters[i].spark_version.version)
        /\ HasValidDate(clusters[j].spark_version.version)
        /\ DateOf(clusters[i]) = now
        /\ DateOf(clusters[j]) = EffectiveThreshold
        /\ DateOf(clusters[j]) # now
        /\ ReturnedAs(clusters[i], "DEPRECATED")
        /\ ReturnedAs(clusters[j], "SOON_DEPRECATED")

\* A cluster the availability rule is about: its version parses, no record
\* of the map carries a date for it, the catalog does not offer it.
Unlisted(cluster) ==
    LET version == cluster.spark_version.version
    IN /\ version # NoVersion
       /\ ~(version \in DOMAIN deprecation_dates
            /\ deprecation_dates[version].deprecation_date # NoDate)
       /\ \A k \in 1..Len(available_versions) :
              available_versions[k].version # version

\* C3: a cluster with a parseable version, no record with a date and a
\* version the catalog does not offer is returned as DEPRECATED with source
\* "availability_check" and the date "Unknown".
C3_AvailabilityCheck ==
    pc = "classified" =>
        \A i \in 1..Len(clusters) :
            Unlisted(clusters[i]) =>
                /\ ReturnedAs(clusters[i], "DEPRECATED")
                /\ \A j \in EntriesOf(clusters[i].cluster_id) :
                    /\ at_risk_clusters[j].source = "availability_check"
                    /\ at_risk_clusters[j].deprecation_date = Unknown

C3_Witness ==
    /\ pc = "classified"
    /\ \E i \in 1..Len(clusters) :
        /\ Unlisted(clusters[i])
        /\ EntriesOf(clusters[i].cluster_id) # {}
        /\ \A j \in EntriesOf(clusters[i].cluster_id) :
               at_risk_clusters[j].source = "availability_check"

\* out is what remains of the cluster list in_ after dropping elements.
RECURSIVE IsFilterOf(_, _)
IsFilterOf(out, in_) ==
    IF out = <<>> THEN TRUE
    ELSE IF in_ = <<>> THEN FALSE
    ELSE IF /\ Head(out).cluster_id = Head(in_).cluster_id
            /\ Head(out).cluster_name = Head(in_).cluster_name
            /\ Head(out).current_runtime = Head(in_).spark_version
         THEN IsFilterOf(Tail(out), Tail(in_))
         ELSE IsFilterOf(out, Tail(in_))

\* C10: the returned list is the cluster list with elements dropped, in the
\* order of the cluster list; every entry is DEPRECATED or SOON_DEPRECATED;
\* no entry is a cluster whose runtime string has no major.minor.
C10_OutputIsFilter ==
    pc = "classified" =>
        /\ IsFilterOf(at_risk_clusters, clusters)
        /\ \A j \in 1..Len(at_risk_clusters) :
            /\ at_risk_clusters[j].status \in {"DEPRECATED", "SOON_DEPRECATED"}
            /\ at_risk_clusters[j].current_runtime.version # NoVersion

\* A list of two clusters of which the first, a supported one, was dropped
\* and the second returned.
C10_Witness ==
    /\ pc = "classified"
    /\ Len(clusters) = 2
    /\ Len(at_risk_clusters) = 1
    /\ HasValidDate(clusters[1].spark_version.version)
    /\ ~DtLeq(DateOf(clusters[1]), EffectiveThreshold)
    /\ ~DtLeq(DateOf(clusters[1]), now)
    /\ at_risk_clusters[1].cluster_id = clusters[2].cluster_id
    /\ clusters[2].cluster_id # clusters[1].cluster_id

\* A cluster whose version has a record with a stored date that is no
\* calendar date.
Malformed(cluster) ==
    LET version == cluster.spark_version.version
    IN /\ version # NoVersion
       /\ version \in DOMAIN deprecation_dates
       /\ deprecation_dates[version].deprecation_date # NoDate
       /\ ~ValidDate(deprecation_dates[version].deprecation_date)

\* The cluster list without the clusters of malformed records.
RECURSIVE WellFormedOnly(_)
WellFormedOnly(cluster_list) ==
    IF cluster_list = <<>> THEN <<>>
    ELSE IF Malformed(Head(cluster_list)) THEN WellFormedOnly(Tail(cluster_list))
    ELSE <<Head(cluster_list)>> \o WellFormedOnly(Tail(cluster_list))

\* The map without its malformed records.
WellFormedDates ==
    [ version \in { v \in DOMAIN deprecation_dates :
                        ValidDate(deprecation_dates[v].deprecation_date) }
        |-> deprecation_dates[version] ]

\* C11: a classification over clusters whose version has a malformed stored
\* date ends normally, returns none of those clusters, and returns for the
\* other clusters what it returns for the list without those clusters and
\* the map without the malformed records.
C11_MalformedDateSkipped ==
    pc = "classified" =>
        /\ \A i \in 1..Len(clusters) :
               Malformed(clusters[i]) => EntriesOf(clusters[i].cluster_id) = {}
        /\ at_risk_clusters =
               get_deprecated_runtime_clusters(deprecated_date_threshold,
                   WellFormedDates, available_versions,
                   WellFormedOnly(clusters), now)

\* A pass over a cluster of a malformed record followed by a cluster that
\* is returned.
C11_Witness ==
    /\ pc = "classified"
    /\ Len(clusters) = 2
    /\ Malformed(clusters[1])
    /\ ~Malformed(clusters[2])
    /\ Len(at_risk_clusters) = 1
    /\ at_risk_clusters[1].cluster_id = clusters[2].cluster_id

\* ------------------------------------------------- claims about the report
\* The scenario: the catalog [7.3 LTS, 8.4, 9.1 LTS, 10.4 ML], a past date
\* known for 7.3, the clusters c1 (Prod, 7.3) and c2 (devbox, 10.4-ml).
Scenario ==
    /\ [ k \in 1..Len(available_versions) |-> available_versions[k].key ]
           = << "7.3.x-scala2.12", "8.4.x-scala2.12", "9.1.x-scala2.12",
                "10.4.x-cpu-ml-scala2.12" >>
    /\ clusters = << Cluster("c1", name_prod, sv_7_3),
                     Cluster("c2", name_devbox, sv_10_4_ml) >>
    /\ <<7, 3>> \in DOMAIN deprecation_dates
    /\ ValidDate(deprecation_dates[<<7, 3>>].deprecation_date)
    /\ DtLeq(Midnight(deprecation_dates[<<7, 3>>].deprecation_date), now)

\* What the scenario is said to give: c1 alone, DEPRECATED, mapped to
\* 9.1 LTS by the production latest-LTS rule.
ScenarioOutcome ==
    /\ Len(at_risk_clusters) = 1
    /\ at_risk_clusters[1].cluster_id = "c1"
    /\ at_risk_clusters[1].status = "DEPRECATED"
    /\ DOMAIN recommendations = {"c1"}
    /\ recommendations["c1"].runtime_key = "9.1.x-scala2.12"
    /\ recommendations["c1"].runtime_name.text = "9.1 LTS (Scala 2.12)"
    /\ recommendations["c1"].rationale
           = "Latest LTS runtime recommended for stable production workloads"

\* C14 as stated: the scenario always gives that outcome.
C14_EndToEndAlways ==
    (pc = "recommended" /\ Scenario) => ScenarioOutcome

\* No date at or before the threshold is known for 10.4.
NoNearDateFor10_4 ==
    \/ <<10, 4>> \notin DOMAIN deprecation_dates
    \/ /\ ValidDate(deprecation_dates[<<10, 4>>].deprecation_date)
       /\ ~DtLeq(Midnight(deprecation_dates[<<10, 4>>].deprecation_date), now)
       /\ ~DtLeq(Midnight(deprecation_dates[<<10, 4>>].deprecation_date),
                 EffectiveThreshold)

\* C14: the scenario gives that outcome when the date known for 10.4 (the
\* hardcoded table dates it 2025-06-30) is after now and after the threshold.
C14_EndToEnd ==
    (pc = "recommended" /\ Scenario /\ NoNearDateFor10_4) => ScenarioOutcome

C14_Witness ==
    pc = "recommended" /\ Scenario /\ NoNearDateFor10_4 /\ ScenarioOutcome

\* ---------------------------------------------------- claims about the cache
\* A step that is a call of op.
CallOf(op) == time' = time /\ last_call'.op = op

\* C15: a call of a cache-backed fetch made within the TTL of the call that
\* last filled the cache makes no fetch and returns the value of that call;
\* a call made after the TTL has expired fetches again.
C15_OneFetchWithinTtl ==
    [][ \A op \in CachedCalls :
          (CallOf(op) /\ filled[op].known) =>
              IF time - filled[op].at <= cache_ttl
              THEN /\ last_call'.fetched = {}
                   /\ last_call'.result = filled[op].value
              ELSE last_call'.fetched # {} ]_vars

PairLeq(a, b) == a[1] < b[1] \/ (a[1] = b[1] /\ a[2] <= b[2])

\* C16: the catalog is sorted ascending by the numeric pair (major, minor).
C16_CatalogSortedNumerically ==
    pc = "resolved" =>
        \A i, j \in 1..Len(available_versions) :
            i < j => PairLeq(available_versions[i].version,
                             available_versions[j].version)

\* A catalog in which 7.3 precedes 9.1, which precedes 10.4.
C16_Witness ==
    /\ pc = "resolved"
    /\ \E i, j, k \in 1..Len(available_versions) :
        /\ i < j /\ j < k
        /\ available_versions[i].version = <<7, 3>>
        /\ available_versions[j].version = <<9, 1>>
        /\ available_versions[k].version = <<10, 4>>

\* C18: get_current_lts_runtimes returns exactly the catalog entries
\* flagged LTS, sorted descending by (major, minor): its first element is a
\* newest LTS runtime of the catalog.
C18_LtsNewestFirst ==
    pc = "resolved" =>
        LET lts == get_current_lts_runtimes(available_versions)
            flagged == { k \in 1..Len(available_versions) : available_versions[k].is_lts }
        IN /\ { lts[i] : i \in 1..Len(lts) } = { available_versions[k] : k \in flagged }
           /\ Len(lts) = Cardinality(flagged)
           /\ \A i, j \in 1..Len(lts) :
                  i < j => PairLeq(lts[j].version, lts[i].version)
           /\ \A k \in flagged : PairLeq(available_versions[k].version, lts[1].version)

\* A catalog with two LTS runtimes of different versions and a runtime that
\* is not LTS.
C18_Witness ==
    /\ pc = "resolved"
    /\ Len(get_current_lts_runtimes(available_versions)) >= 2
    /\ get_current_lts_runtimes(available_versions)[1].version
           # get_current_lts_runtimes(available_versions)[2].version
    /\ \E k \in 1..Len(available_versions) : ~available_versions[k].is_lts

\* The offerings of the answer whose name has a major.minor.
Numbered == { k \in 1..Len(upstream.versions.items) : upstream.versions.items[k].name.version # NoVersion }

\* C17: the catalog holds exactly the offerings whose name has a
\* major.minor, each with the first such pair as version and is_lts true
\* iff the name contains "LTS".
C17_KeepsNumberedOfferings ==
    last_call.op = "get_available_runtime_versions" =>
        LET result == last_call.result
            items == upstream.versions.items
        IN /\ Len(result) = Cardinality(Numbered)
           /\ { result[i].key : i \in 1..Len(result) } = { items[k].key : k \in Numbered }
           /\ \A i \in 1..Len(result) :
                \E k \in Numbered :
                    /\ result[i].key = items[k].key
                    /\ result[i].name = items[k].name
                    /\ result[i].version = items[k].name.version
                    /\ result[i].is_lts = ("LTS" \in items[k].name.has)

\* A catalog resolved from an answer that has an offering without a
\* version, LTS offerings and one that is not LTS.
C17_Witness ==
    /\ last_call.op = "get_available_runtime_versions"
    /\ Cardinality(Numbered) < Len(upstream.versions.items)
    /\ \E i, j \in 1..Len(last_call.result) :
           last_call.result[i].is_lts /\ ~last_call.result[j].is_lts

\* ---------------------------------------------- claims about table rows
\* The date a cell of a table row states: day 1 for a month and a year.
RowDate(cell) == IF cell.fmt = "MonthY" THEN <<cell.y, cell.m, 1>> ELSE <<cell.y, cell.m, cell.d>>

\* A row whose version and date both parse.
RowParses(row) ==
    /\ row.version # NoVersion
    /\ row.eol.fmt \in {"MonthDY", "ISO", "MDY", "MonthY"}
    /\ ValidDate(RowDate(row.eol))

\* A row with a version whose cell the code takes a date from: a cell in
\* YYYY-MM-DD form is taken as written.
RowGivesDate(row) ==
    /\ row.version # NoVersion
    /\ row.eol.fmt \in {"MonthDY", "ISO", "MDY", "MonthY"}
    /\ row.eol.fmt = "ISO" \/ ValidDate(RowDate(row.eol))

ReadBack(data) ==
    IF data.type = "tuple" THEN [data EXCEPT !.type = "list"]
    ELSE IF data.type = "dict" THEN [data EXCEPT !.keys = "str"]
    ELSE data

\* What a successful set leaves: the entry of the key is written at the time
\* of the set, and the entries of the other keys are as before.
SetResets ==
    /\ disk'[last_call'.key].exists
    /\ disk'[last_call'.key].written_at = time
    /\ \A other \in StoreKeys \ {last_call'.key} : disk'[other] = disk[other]

C22_FailedWriteIsNoOp ==
    [][ /\ (CallOf("CacheManager.get") /\ last_call'.failed) =>
               (last_call'.result = Absent /\ disk' = disk)
        /\ (CallOf("CacheManager.set") /\ last_call'.failed) => disk' = disk ]_vars

\* C27: a get made once both sets have completed returns the complete
\* payload of one of the two writers; a get made while a set is in progress
\* returns absent, the old payload or the payload of a writer.
C27_LastWriteWins ==
    (last_call.op = "CacheManager.get" /\ \E w \in Writers : last_call.writers[w].at # "idle") =>
        IF \A w \in Writers : last_call.writers[w].at = "done"
        THEN last_call.result \in { RaceParse(last_call.writers[w].text) : w \in Writers }
        ELSE last_call.result \in
                 { Absent, RaceParse(OldText) }
                 \cup { RaceParse(last_call.writers[w].text) :
                          w \in { x \in Writers : last_call.writers[x].at # "idle" } }

\* ---------------------------------------- claims about the request wrapper
\* A response with a status below 400.
StatusOk(response) == response.kind = "response" /\ response.status < 400

\* A response with a status below 400 whose body is empty or is JSON.
Usable(response) == StatusOk(response) /\ response.body \in {"empty", "json"}

Finished == request.state \in {"returned", "raised"}

LastResponse == request.responses[Len(request.responses)]

\* C23 as stated, for a retry_count of at least 1: at most retry_count
\* requests; the call stops at the first response with a status below 400
\* and returns its body; when every attempt failed it raises the failure of
\* the last one.
C23_StopsAtFirstStatusOk ==
    (request.state # "none" /\ request.retry_count >= 1) =>
        /\ request.sent <= request.retry_count
        /\ request.sent = Len(request.responses)
        /\ \A i \in 1..(Len(request.responses) - 1) : ~StatusOk(request.responses[i])
        /\ request.state = "returned" =>
               /\ request.responses # << >>
               /\ StatusOk(LastResponse)
               /\ request.result = (IF LastResponse.body = "empty" THEN "{}" ELSE "body")
        /\ (Finished /\ \A i \in 1..Len(request.responses) : ~StatusOk(request.responses[i])) =>
               request.state = "raised"

\* C23: with retry_count of at least 1, at most retry_count requests are
\* sent; the call stops at the first response with a status below 400 whose
\* body is empty or decodes as JSON and returns that body ({} when empty);
\* an exception, a status of 400 or more and a body that does not decode
\* are failed attempts; when all retry_count attempts failed the call
\* raises the failure of the last one.
C23_StopsAtFirstUsable ==
    (request.state # "none" /\ request.retry_count >= 1) =>
        /\ request.sent <= request.retry_count
        /\ request.sent = Len(request.responses)
        /\ \A i \in 1..(Len(request.responses) - 1) : ~Usable(request.responses[i])
        /\ request.state = "returned" =>
               /\ request.responses # << >>
               /\ Usable(LastResponse)
               /\ request.result = (IF LastResponse.body = "empty" THEN "{}" ELSE "body")
        /\ request.state = "raised" =>
               /\ request.sent = request.retry_count
               /\ ~Usable(LastResponse)
               /\ request.error =
                      (IF LastResponse.kind = "exception" THEN "RequestException"
                       ELSE IF LastResponse.status >= 400 THEN "HTTPError"
                       ELSE "JSONDecodeError")
        /\ (Finished /\ \A i \in 1..Len(request.responses) : ~Usable(request.responses[i])) =>
               request.state = "raised"
        /\ (request.state = "running" /\ request.responses # << >>) => ~Usable(LastResponse)

\* A call that returned at its third attempt, after a status 200 with a
\* body that did not decode and a status 404.
C23_Witness ==
    /\ request.state = "returned"
    /\ request.retry_count = 3
    /\ request.sent = 3
    /\ request.responses[1] = [kind |-> "response", status |-> 200, body |-> "malformed"]
    /\ request.responses[2].status = 404
    /\ request.responses[3] = [kind |-> "response", status |-> 200, body |-> "json"]
    /\ request.result = "body"

\* retry_delay * 2^i, by repeated doubling.
RECURSIVE Doubled(_, _)
Doubled(delay, i) == IF i = 0 THEN delay ELSE 2 * Doubled(delay, i - 1)

\* C24: the k-th sleep of a call lasts retry_delay * 2^(k-1) seconds and
\* comes after the failed attempt k-1 (0-based) when that is not the last;
\* a call that has finished after n >= 1 attempts has slept n - 1 times, a
\* call between two attempts once per attempt made.
C24_SleepsBetweenAttempts ==
    request.state # "none" =>
        /\ \A k \in 1..Len(request.sleeps) :
               /\ request.sleeps[k] = Doubled(request.retry_delay, k - 1)
               /\ AttemptFails(request.responses[k])
               /\ k < request.retry_count
        /\ (Finished /\ request.sent >= 1) => Len(request.sleeps) = request.sent - 1
        /\ request.sent = 0 => request.sleeps = << >>
        /\ request.state = "running" => Len(request.sleeps) = request.sent

\* A call with retry_delay 2 that failed three times: it slept 2 and then 4
\* seconds, and not after the last attempt.
C24_Witness ==
    /\ request.state = "raised"
    /\ request.retry_delay = 2
    /\ request.sent = 3
    /\ request.sleeps = << 2, 4 >>

\* C28: a call that returns returns the body of a response it received
\* with a status below 400, never the {} after the loop.
C28_NeverFallsThrough ==
    request.state = "returned" =>
        /\ request.via = "response"
        /\ request.responses # << >>
        /\ StatusOk(LastResponse)

\* ------------------------------------------- claims about upstream faults
\* The step in which a fetch from the platform raises.
FetchRaises == last_call' # last_call /\ last_call'.op = "make_api_request"

\* C25: when the cluster-list fetch or the catalog fetch raises after its
\* retries, the pass ends in that fault: no list is returned, then or
\* later, and nothing is stored.
C25_UpstreamFaultPropagates ==
    [][ /\ FetchRaises =>
               /\ pc' = "fault"
               /\ UNCHANGED << clusters, at_risk_clusters, recommendations, cache_dates >>
        /\ pc = "fault" => pc' = "fault" ]_vars

\* The cluster-list fetch raised after the merge had produced the map: the
\* pass is in the fault and has returned no list.
C25_Witness ==
    /\ pc = "fault"
    /\ last_call.op = "make_api_request"
    /\ last_call.endpoint = "2.0/clusters/list"
    /\ cache_dates.present
    /\ <<7, 3>> \in DOMAIN deprecation_dates
    /\ at_risk_clusters = << >>

\* ------------------------------------------ claims about the merged records
\* C29: every record of the returned map has its key as version and a
\* valid calendar date as deprecation_date.
C29_RecordsWellFormed ==
    pc = "done" =>
        \A v \in DOMAIN deprecation_dates :
            /\ deprecation_dates[v].version = v
            /\ ValidDate(deprecation_dates[v].deprecation_date)

\* ------------------------------------------ claims about the empty catalog
\* C30: with an empty catalog the recommender raises on a list with a
\* cluster and returns no map; on an empty list it returns the empty map;
\* with a catalog that is not empty every cluster gets a recommendation
\* whose runtime is an entry of the catalog.
C30_EmptyCatalogRaises ==
    pc \in {"recommended", "error"} =>
        IF clusters = << >>
        THEN pc = "recommended" /\ recommendations = << >>
        ELSE IF available_versions = << >>
        THEN pc = "error" /\ recommendations = << >>
        ELSE /\ pc = "recommended"
             /\ DOMAIN recommendations = { clusters[i].cluster_id : i \in 1..Len(clusters) }
             /\ \A id \in DOMAIN recommendations :
                    \E k \in 1..Len(available_versions) :
                        /\ recommendations[id].runtime_key = available_versions[k].key
                        /\ recommendations[id].runtime_name = available_versions[k].name

\* The recommender was given a production cluster and an empty catalog,
\* and raised.
C30_Witness ==
    /\ pc = "error"
    /\ available_versions = << >>
    /\ Len(clusters) >= 1
    /\ NamedProduction(clusters[1])
    /\ recommendations = << >>

\* ---------------------------------------- claims about the library checks
\* The check of a library fails: it is a PyPI library with a known version
\* that is not below a minimum safe version, and PyPI cannot be reached,
\* answers with another status than 200, or the version cannot be compared.
CheckFails(lib) ==
    /\ lib.pypi
    /\ lib.version.known
    /\ ~(/\ lib.package \in {"numpy", "pandas"}
         /\ lib.version.comparable
         /\ lib.version.n < 2)
    /\ lib.answer.status # "ok" \/ ~lib.version.comparable

\* C26: at most max_workers checks run at a time; the collected results
\* are in the input order of the libraries whatever order the workers
\* finished in; a failed check gives absent for its library only, and every
\* other library has the result its own check gives.
C26_ChecksIndependentInOrder ==
    /\ pool.state # "none" => Cardinality(pool.running) <= max_workers
    /\ pool.state = "collected" =>
        /\ Len(pool.collected) = Len(pool.libs)
        /\ \A i \in 1..Len(pool.libs) :
            /\ pool.collected[i] = pool.results[i].value
            /\ pool.collected[i] = process_library(pool.libs[i])
            /\ CheckFails(pool.libs[i]) => pool.collected[i] = None
            /\ pool.collected[i] # None => pool.collected[i].library_name = pool.libs[i].package
        /\ Len(pool.outdated) = Cardinality({ i \in 1..Len(pool.libs) : pool.collected[i] # None })

\* Three checks were collected: the workers finished the second before the
\* first, the second failed because PyPI could not be reached, and the
\* first and the third have their results.
C26_Witness ==
    /\ pool.state = "collected"
    /\ Len(pool.libs) = 3
    /\ pool.order = << 2, 1, 3 >>
    /\ pool.libs[2].answer.status = "unreachable"
    /\ CheckFails(pool.libs[2])
    /\ pool.collected[2] = None
    /\ pool.collected[1] # None
    /\ pool.collected[3] # None
    /\ pool.collected[1].library_name = pool.libs[1].package

=============================================================================
